---------------------------- MODULE Spec2Model ----------------------------
(***************************************************************************)
(* FocusMark: N editor windows (processes) elect the "active" window       *)
(* through one shared coordination file, and paint / unpaint a derived     *)
(* colour palette on a settings document they do not own.                  *)
(*                                                                         *)
(*   FocusMarkManager  (core/FocusMarkManager.ts)  - activation + file     *)
(*   ThemeManager      (theming/ThemeManager.ts)   - capture/apply/restore *)
(*                                                                         *)
(* Two specifications over the same variables:                             *)
(*   Spec       the coordination protocol among the processes of Procs;    *)
(*   SpecTheme  one ThemeManager, its document and an external editor.     *)
(***************************************************************************)
EXTENDS Integers, FiniteSets, Sequences, TLC

(***************************************************************************)
(* Bounds of the model.                                                    *)
(***************************************************************************)
\* number of windows sharing the coordination file
NumProcs == 2
\* largest value the wall clock (Date.now()) takes
MaxClock == 2
\* number of edits the external actor makes to the documents
MaxEdits == 2
\* number of records writers outside Procs leave in the coordination file
MaxForeignWrites == 1
\* number of records the writer of SpecRecords leaves in the file
MaxRecords == 2

Procs == 1 .. NumProcs

(***************************************************************************)
(* Values.  A settings document maps each key to a value; a key the        *)
(* document does not hold reads as JavaScript's undefined.                 *)
(***************************************************************************)
\* JavaScript undefined: a missing key, an unset field
Undefined == <<"undefined">>
\* JavaScript null: an explicit null in the document or in a snapshot
Null == <<"null">>
\* the colour an external actor (the user, another tool) writes
UserValue == <<"user", "#123456">>

\* ThemeManager.ts: the workbench elements the extension colours
AFFECTED_ELEMENTS ==
    { "titleBar.activeBackground", "titleBar.activeForeground",
      "titleBar.inactiveBackground", "titleBar.inactiveForeground",
      "activityBar.background", "activityBar.foreground",
      "activityBar.inactiveForeground", "activityBar.border",
      "statusBar.background", "statusBar.foreground", "statusBar.border",
      "tab.activeBorderTop", "sideBar.border", "input.border", "focusBorder" }

MINIMAL_ELEMENTS ==
    { "titleBar.activeBackground", "titleBar.activeForeground",
      "titleBar.inactiveBackground", "titleBar.inactiveForeground" }

\* a colour customization the extension never touches
OtherKey == "editor.background"

DocKeys == AFFECTED_ELEMENTS \cup {OtherKey}

\* ColorGenerator.ts THEME_COLORS: the two base colours the model uses
Blue == "#1976D2"
Orange == "#F57C00"

\* the empty colorCustomizations object ("|| {}")
EmptyDoc == [k \in DocKeys |-> Undefined]

(***************************************************************************)
(* ThemeManager.generateColorPalette.  colord's arithmetic is kept         *)
(* symbolic: the value of a key is the pair (base colour, derivation), so  *)
(* two keys agree exactly when the code computes them by the same          *)
(* expression from the same base colour.                                   *)
(***************************************************************************)
Derivation(key) ==
    CASE key \in {"titleBar.activeBackground", "activityBar.background",
                  "statusBar.background"} -> "baseColorHex"
      [] key \in {"titleBar.activeForeground", "activityBar.foreground",
                  "statusBar.foreground"} -> "foreground"
      [] key = "titleBar.inactiveBackground" -> "inactiveBackground"
      [] key \in {"titleBar.inactiveForeground",
                  "activityBar.inactiveForeground"} -> "inactiveForeground"
      [] key = "focusBorder" -> "alpha(0.7)"
      [] OTHER -> "border"

fullPalette(baseColorHex) ==
    [key \in AFFECTED_ELEMENTS |-> <<baseColorHex, Derivation(key)>>]

\* a variant that returns the full palette in either mode
generateColorPalette_FullAlways(baseColorHex, minimalMode) ==
    fullPalette(baseColorHex)

generateColorPalette(baseColorHex, minimalMode) ==
    IF minimalMode
      THEN [key \in MINIMAL_ELEMENTS |-> fullPalette(baseColorHex)[key]]
      ELSE fullPalette(baseColorHex)

\* ThemeManager.buildAppliedPalette: the fingerprint, one entry per
\* affected key, undefined for a key the palette does not hold
buildAppliedPalette(baseColorHex, minimalMode) ==
    LET palette == generateColorPalette(baseColorHex, minimalMode)
    IN  [key \in AFFECTED_ELEMENTS |->
            IF key \in DOMAIN palette THEN palette[key] ELSE Undefined]


(***************************************************************************)
(* ThemeManager.  Its methods are operators on a context c, a record of    *)
(* everything one ThemeManager reads and writes:                           *)
(*   applied, color, minimal, palette   the private fields isThemeApplied, *)
(*                                      lastAppliedColor,                  *)
(*                                      lastAppliedMinimal,                *)
(*                                      lastAppliedPalette                 *)
(*   stored, flag    workspaceState: THEME_STATE_KEY, THEME_APPLIED_KEY    *)
(*   gstored         globalState: GLOBAL_THEME_STATE_KEY                   *)
(*   hasWs           getWorkspaceConfigurationTarget() is not null         *)
(*   ws, g           workbench.colorCustomizations: workspaceValue and     *)
(*                   globalValue                                           *)
(***************************************************************************)
\* no snapshot stored (workspaceState.get returns undefined); a stored
\* snapshot holds null or a value for every key, never undefined
NoSnapshot == [key \in AFFECTED_ELEMENTS |-> Undefined]
\* lastAppliedPalette = undefined; a recorded fingerprint always holds the
\* title-bar values
NoPalette == [key \in AFFECTED_ELEMENTS |-> Undefined]
\* lastAppliedColor / lastAppliedMinimal = undefined
NoColor == "undefined"
NoMode == "undefined"
ModeOf(minimalMode) == IF minimalMode THEN "minimal" ELSE "full"

\* the document of the local scope: inspect.workspaceValue with a
\* workspace, inspect.globalValue without
LocalDoc(c) == IF c.hasWs THEN c.ws ELSE c.g
SetLocalDoc(c, doc) == IF c.hasWs THEN [c EXCEPT !.ws = doc] ELSE [c EXCEPT !.g = doc]

\* "stored[key] = current[key] ?? null", or null for a key not held
Snapshot(doc) ==
    [key \in AFFECTED_ELEMENTS |-> IF doc[key] = Undefined THEN Null ELSE doc[key]]

\* a variant that captures whether or not a snapshot is stored
ensureOriginalCustomizationsCaptured_Always(c) ==
    [c EXCEPT !.stored = Snapshot(LocalDoc(c))]

ensureOriginalCustomizationsCaptured(c) ==
    IF c.stored # NoSnapshot THEN c
    ELSE [c EXCEPT !.stored = Snapshot(LocalDoc(c))]

ensureGlobalOriginalCustomizationsCaptured(c) ==
    IF c.gstored # NoSnapshot THEN c
    ELSE [c EXCEPT !.gstored = Snapshot(c.g)]

\* ThemeManager.areCustomizationsEqual: the keys whose value is not
\* undefined, and their values
areCustomizationsEqual(current, next) ==
    /\ {k \in DocKeys : current[k] # Undefined} = {k \in DocKeys : next[k] # Undefined}
    /\ \A k \in DocKeys : current[k] # Undefined => current[k] = next[k]

\* ThemeManager.applyColorsToWorkbench on document doc: colors holds a
\* value or undefined for every affected key ({...resetKeys, ...palette});
\* the merge keeps the other keys, an undefined entry deletes its key
MergeColors(doc, colors) ==
    [k \in DocKeys |-> IF k \in AFFECTED_ELEMENTS THEN colors[k] ELSE doc[k]]

applyColorsToWorkbench(doc, colors) ==
    IF areCustomizationsEqual(doc, MergeColors(doc, colors))
      THEN doc
      ELSE MergeColors(doc, colors)

\* the entry of one key after the fingerprint comparison of a restore
\* (a variant that restores without looking at the fingerprint)
RestoredValue_NoFingerprint(current, appliedPalette, stored, key) ==
    IF stored # NoSnapshot /\ stored[key] # Null /\ stored[key] # Undefined
      THEN stored[key]
      ELSE Undefined

RestoredValue(current, appliedPalette, stored, key) ==
    IF appliedPalette # NoPalette /\ current[key] # appliedPalette[key]
      THEN current[key]
      ELSE IF stored # NoSnapshot /\ stored[key] # Null /\ stored[key] # Undefined
             THEN stored[key]
             ELSE Undefined

\* a variant that lowers the flag and leaves the snapshot stored
clearStoredCustomizations_KeepsSnapshot(c) ==
    [c EXCEPT !.flag = FALSE]

clearStoredCustomizations(c) ==
    [c EXCEPT !.stored = NoSnapshot, !.flag = FALSE]

restoreOriginalCustomizations(c, stored) ==
    LET current == LocalDoc(c)
        updated == [k \in DocKeys |->
                       IF k \in AFFECTED_ELEMENTS
                         THEN RestoredValue(current, c.palette, stored, k)
                         ELSE current[k]]
    IN  clearStoredCustomizations(SetLocalDoc(c, updated))

restoreGlobalOriginalCustomizations(c) ==
    IF c.gstored = NoSnapshot THEN c
    ELSE IF c.palette = NoPalette THEN c
    ELSE LET updated == [k \in DocKeys |->
                            IF k \in AFFECTED_ELEMENTS /\ c.g[k] = c.palette[k]
                              THEN (IF c.gstored[k] # Null /\ c.gstored[k] # Undefined
                                      THEN c.gstored[k] ELSE Undefined)
                              ELSE c.g[k]]
         IN  [c EXCEPT !.g = updated, !.gstored = NoSnapshot]

applyDefaultColors(c) ==
    SetLocalDoc(c, [k \in DocKeys |->
                       IF k \in AFFECTED_ELEMENTS THEN Null ELSE LocalDoc(c)[k]])

applyTheme(c, baseColor, fullColorMode) ==
    LET minimalMode == ~fullColorMode
        c1 == ensureGlobalOriginalCustomizationsCaptured(
                  ensureOriginalCustomizationsCaptured(c))
        newColorCustomizations == generateColorPalette(baseColor, minimalMode)
        colors == [key \in AFFECTED_ELEMENTS |->
                      IF key \in DOMAIN newColorCustomizations
                        THEN newColorCustomizations[key] ELSE Undefined]
        c2 == IF c1.hasWs
                THEN [c1 EXCEPT !.ws = applyColorsToWorkbench(c1.ws, colors)]
                ELSE c1
    IN  IF c.applied /\ c.color = baseColor /\ c.minimal = ModeOf(minimalMode)
          THEN c
          ELSE [c2 EXCEPT !.g = applyColorsToWorkbench(c2.g, colors),
                          !.palette = buildAppliedPalette(baseColor, minimalMode),
                          !.applied = TRUE,
                          !.color = baseColor,
                          !.minimal = ModeOf(minimalMode),
                          !.flag = TRUE]

\* applyTheme in the three parts its awaits divide it into, for an apply
\* that is not skipped.  First the two captures:
applyThemeCapture(c) ==
    ensureGlobalOriginalCustomizationsCaptured(ensureOriginalCustomizationsCaptured(c))

\* then the fingerprint is recorded and the targets are updated:
applyThemeUpdate(c, baseColor, fullColorMode) ==
    LET minimalMode == ~fullColorMode
        newColorCustomizations == generateColorPalette(baseColor, minimalMode)
        colors == [key \in AFFECTED_ELEMENTS |->
                      IF key \in DOMAIN newColorCustomizations
                        THEN newColorCustomizations[key] ELSE Undefined]
        c2 == IF c.hasWs
                THEN [c EXCEPT !.ws = applyColorsToWorkbench(c.ws, colors)]
                ELSE c
    IN  [c2 EXCEPT !.g = applyColorsToWorkbench(c2.g, colors),
                   !.palette = buildAppliedPalette(baseColor, minimalMode)]

\* and last the fields and the durable flag are set:
applyThemeReturn(c, baseColor, fullColorMode) ==
    [c EXCEPT !.applied = TRUE,
              !.color = baseColor,
              !.minimal = ModeOf(~fullColorMode),
              !.flag = TRUE]

\* the number of workbenchConfig.update calls one applyColorsToWorkbench
\* makes on document doc
applyColorsToWorkbenchWrites(doc, colors) ==
    IF areCustomizationsEqual(doc, MergeColors(doc, colors)) THEN 0 ELSE 1

\* a variant that updates each target on every call
applyThemeWrites_Unconditional(c, baseColor, fullColorMode) ==
    IF c.hasWs THEN 2 ELSE 1

\* the number of updates of colorCustomizations one applyTheme makes: none
\* when it returns at the identical-settings check, else one per target
\* whose merged content differs from what the target holds
applyThemeWrites(c, baseColor, fullColorMode) ==
    LET minimalMode == ~fullColorMode
        newColorCustomizations == generateColorPalette(baseColor, minimalMode)
        colors == [key \in AFFECTED_ELEMENTS |->
                      IF key \in DOMAIN newColorCustomizations
                        THEN newColorCustomizations[key] ELSE Undefined]
    IN  IF c.applied /\ c.color = baseColor /\ c.minimal = ModeOf(minimalMode)
          THEN 0
          ELSE (IF c.hasWs THEN applyColorsToWorkbenchWrites(c.ws, colors) ELSE 0)
                 + applyColorsToWorkbenchWrites(c.g, colors)

removeTheme(c, forceDefaultInactive) ==
    LET done == IF forceDefaultInactive
                  THEN [applyDefaultColors(ensureOriginalCustomizationsCaptured(c))
                          EXCEPT !.flag = FALSE]
                  ELSE restoreOriginalCustomizations(c, c.stored)
    IN  IF ~c.applied /\ c.stored = NoSnapshot /\ ~forceDefaultInactive
          THEN c
          ELSE [done EXCEPT !.applied = FALSE, !.color = NoColor,
                            !.minimal = NoMode, !.palette = NoPalette]

resetAllColors(c) ==
    restoreGlobalOriginalCustomizations(removeTheme(c, FALSE))

\* a ThemeManager constructed over the durable state and the documents an
\* earlier instance left: the private fields start from their initialisers
NewInstance(c) ==
    [c EXCEPT !.applied = FALSE, !.color = NoColor,
              !.minimal = NoMode, !.palette = NoPalette]

ensureCleanStateOnStartup(c, preserveTheme, forceDefaultInactive) ==
    IF ~c.flag THEN c
    ELSE IF preserveTheme THEN [c EXCEPT !.applied = TRUE]
    ELSE IF forceDefaultInactive THEN removeTheme(c, TRUE)
    ELSE removeTheme(c, FALSE)


(***************************************************************************)
(* State.                                                                  *)
(***************************************************************************)
(***************************************************************************)
(* TitleManager.  Its methods are operators on a context t, a record of    *)
(* the manager's private fields (m) and of the window.title setting at the *)
(* workspace and the global target (doc).  A title is the sequence of the  *)
(* parts buildTitle joins.                                                 *)
(***************************************************************************)
\* what config.get('title') returns when the setting is nowhere set
DefaultWindowTitle == <<"${activeEditorShort}${separator}${rootName}">>
\* titles a user has in the settings
DefaultTitle == <<"Default Title">>
UserTitle == <<"User Title">>
\* the default focusmark.title.indicator
Indicator == "X"

\* originalTitleTarget / appliedTarget = undefined
NoTarget == "undefined"

NewTitleManager ==
    [ originalTitle |-> Undefined, originalTitleCaptured |-> FALSE,
      lastSetTitle |-> Undefined, originalTitleTarget |-> NoTarget,
      originalTitleHasValue |-> FALSE, appliedTarget |-> NoTarget ]

NonEmpty(part) == part # ""

\* TitleManager.buildTitle without an active editor
buildTitle(indicator, rootName) ==
    SelectSeq(<<indicator, rootName>>, NonEmpty)

getConfigurationTarget(hasWorkspace) ==
    IF hasWorkspace THEN "Workspace" ELSE "Global"

\* config.get('title'): the workspace value, else the global value, else
\* the default of the setting
EffectiveTitle(doc) ==
    IF doc.ws # Undefined THEN doc.ws
    ELSE IF doc.g # Undefined THEN doc.g
    ELSE DefaultWindowTitle

\* config.update('title', value, target)
UpdateTitle(doc, value, target) ==
    IF target = "Workspace" THEN [doc EXCEPT !.ws = value]
                            ELSE [doc EXCEPT !.g = value]

captureOriginalTitle(m, doc) ==
    IF doc.ws # Undefined
      THEN [m EXCEPT !.originalTitle = doc.ws,
                     !.originalTitleTarget = "Workspace",
                     !.originalTitleHasValue = TRUE]
    ELSE IF doc.g # Undefined
      THEN [m EXCEPT !.originalTitle = doc.g,
                     !.originalTitleTarget = "Global",
                     !.originalTitleHasValue = TRUE]
    ELSE [m EXCEPT !.originalTitle = Undefined,
                   !.originalTitleTarget = "Global",
                   !.originalTitleHasValue = FALSE]

updateTitleInConfig(t, newTitle, hasWorkspace) ==
    LET target == getConfigurationTarget(hasWorkspace)
        currentTitle == EffectiveTitle(t.doc)
        m1 == IF ~t.m.originalTitleCaptured
                THEN [captureOriginalTitle(t.m, t.doc)
                        EXCEPT !.originalTitleCaptured = TRUE]
              ELSE IF t.m.lastSetTitle # Undefined /\ currentTitle # t.m.lastSetTitle
                THEN captureOriginalTitle(t.m, t.doc)
              ELSE t.m
    IN  [ m |-> [m1 EXCEPT !.lastSetTitle = newTitle, !.appliedTarget = target],
          doc |-> UpdateTitle(t.doc, newTitle, target) ]

restoreOriginalTitle(t, hasWorkspace) ==
    LET targetTitle == IF t.m.originalTitleCaptured
                         THEN t.m.originalTitle ELSE EffectiveTitle(t.doc)
        target == IF t.m.appliedTarget # NoTarget
                    THEN t.m.appliedTarget ELSE getConfigurationTarget(hasWorkspace)
        originalTarget == IF t.m.originalTitleTarget # NoTarget
                            THEN t.m.originalTitleTarget ELSE target
        restored == IF t.m.originalTitleHasValue THEN targetTitle ELSE Undefined
        doc1 == IF originalTarget = "Global" /\ target = "Workspace"
                  THEN UpdateTitle(t.doc, Undefined, "Workspace") ELSE t.doc
    IN  [ m |-> [NewTitleManager EXCEPT !.lastSetTitle = targetTitle],
          doc |-> UpdateTitle(doc1, restored, originalTarget) ]

VARIABLES
    config,            \* the focusmark.* settings the core reads
    workspaceId,       \* WindowIdentifier.getCurrentWorkspaceId() of each process
    focused,           \* vscode.window.state.focused of each process
    isWindowActive,    \* FocusMarkManager.isWindowActive
    lastActivatedAt,   \* FocusMarkManager.lastActivatedAt
    activeApplyTimer,  \* TRUE while the apply-delay timer handle is set
    deactivateTimer,   \* TRUE while the deactivation timer handle is set
    pcActivate,        \* where the activation task of each process stands
    pcCoord,           \* where its handleCoordinationChange task stands
    tm,                \* ThemeManager's private fields
    workspaceState,    \* the process-local durable store (context.workspaceState)
    globalState,       \* the shared durable store (context.globalState)
    workspaceDoc,      \* colorCustomizations, workspace target, per workspace
    globalDoc,         \* colorCustomizations, global target
    title,             \* the window title TitleManager last set
    statusBarActive,   \* StatusBarManager.isActive
    coordinationFile,  \* content of coordination.json
    tempFile,          \* content of coordination.json.<windowId>.tmp
    pcSecond,          \* where a second, overlapping activation task stands
    openOn,            \* where the file a pending writeJson has open is linked
    windowTitle,       \* the window.title setting at the workspace and global targets
    titleManager,      \* TitleManager's private fields (process 1)
    userTitle,         \* history: the title the user set over the marker
    preApply,          \* history: the local document the applyTheme of the last step found
    clock,             \* Date.now()
    edits,             \* history: number of external edits made so far
    lastCall,          \* history: what the driver of SpecTheme did last
    handled,           \* history: how the process decided on the record now in the file
    maxSeen            \* history: largest timestamp of a remote claim the process has read

procVars == <<focused, isWindowActive, lastActivatedAt, activeApplyTimer,
              deactivateTimer, pcActivate, pcCoord, title, statusBarActive>>
themeVars == <<tm, workspaceState, globalState, workspaceDoc, globalDoc>>
fileVars == <<coordinationFile, tempFile>>
histVars == <<edits, lastCall, handled, maxSeen>>
ghostVars == <<preApply>>
raceVars == <<pcSecond, openOn>>
titleVars == <<windowTitle, titleManager, userTitle>>
vars == <<config, workspaceId, procVars, themeVars, fileVars, raceVars, titleVars,
          clock, histVars, ghostVars>>

\* WindowIdentifier.generateWorkspaceId
NoWorkspace == "no-workspace"
Workspaces == {"workspace-1", "workspace-2"}

\* ColorGenerator.generateAutoColorFromWorkspace (theme "auto"): a stable
\* colour per workspace
EffectiveColor(p) ==
    IF workspaceId[p] = "workspace-2" THEN Orange ELSE Blue

HasWorkspace(p) == workspaceId[p] # NoWorkspace

\* the ThemeManager context of process p, and its write-back
Ctx(p) ==
    [ applied |-> tm[p].applied, color |-> tm[p].color,
      minimal |-> tm[p].minimal, palette |-> tm[p].palette,
      stored |-> workspaceState[p].stored, flag |-> workspaceState[p].flag,
      gstored |-> globalState,
      hasWs |-> HasWorkspace(p),
      ws |-> IF HasWorkspace(p) THEN workspaceDoc[workspaceId[p]] ELSE EmptyDoc,
      g |-> globalDoc ]

StoreCtx(p, c) ==
    /\ tm' = [tm EXCEPT ![p] = [applied |-> c.applied, color |-> c.color,
                                minimal |-> c.minimal, palette |-> c.palette]]
    /\ workspaceState' = [workspaceState EXCEPT ![p] = [stored |-> c.stored,
                                                         flag |-> c.flag]]
    /\ globalState' = c.gstored
    /\ workspaceDoc' = IF HasWorkspace(p)
                         THEN [workspaceDoc EXCEPT ![workspaceId[p]] = c.ws]
                         ELSE workspaceDoc
    /\ globalDoc' = c.g

\* a ThemeManager right after its constructor
NewThemeManager ==
    [applied |-> FALSE, color |-> NoColor, minimal |-> NoMode, palette |-> NoPalette]
\* a durable store nothing was written to
CleanWorkspaceState == [stored |-> NoSnapshot, flag |-> FALSE]

\* the coordination file: absent, unparsable, or one claim record
NoFile == [kind |-> "none", activeWindowId |-> 0, workspaceId |-> "", timestamp |-> 0]
Corrupt == [kind |-> "corrupt", activeWindowId |-> 0, workspaceId |-> "", timestamp |-> 0]
Claim(id, ws, ts) ==
    [kind |-> "claim", activeWindowId |-> id, workspaceId |-> ws, timestamp |-> ts]
\* a file that was opened for writing (and so truncated) and not yet written
Empty == [kind |-> "empty", activeWindowId |-> 0, workspaceId |-> "", timestamp |-> 0]

\* fs.rename(temp, coordinationFile) by process p: the file that was the
\* temp file is now the coordination file, the one that was the
\* coordination file has no name any more
Relinked(p) ==
    [q \in Procs |-> IF q = p /\ openOn[q] = "temp" THEN "file"
                     ELSE IF openOn[q] = "file" THEN "lost"
                     ELSE openOn[q]]

\* fs.remove(coordinationFile)
Unlinked ==
    [q \in Procs |-> IF openOn[q] = "file" THEN "lost" ELSE openOn[q]]

(***************************************************************************)
(* SpecTheme: one ThemeManager (process 1), driven directly, and an        *)
(* external actor that edits the documents between its calls.              *)
(***************************************************************************)
\* the keys the external actor edits: a title-bar key (in both palettes),
\* a status-bar key (full palette only) and a key the extension never owns
EditKeys == {"titleBar.activeBackground", "statusBar.background", OtherKey}

\* history: no applyTheme was the driver's last step
NoPreApply == [fresh |-> FALSE, doc |-> EmptyDoc]

InitCore ==
    /\ focused = [p \in Procs |-> FALSE]
    /\ isWindowActive = [p \in Procs |-> FALSE]
    /\ lastActivatedAt = [p \in Procs |-> 0]
    /\ activeApplyTimer = [p \in Procs |-> FALSE]
    /\ deactivateTimer = [p \in Procs |-> FALSE]
    /\ pcActivate = [p \in Procs |-> "idle"]
    /\ pcCoord = [p \in Procs |-> "idle"]
    /\ tm = [p \in Procs |-> NewThemeManager]
    /\ workspaceState = [p \in Procs |-> CleanWorkspaceState]
    /\ globalState = NoSnapshot
    /\ title = [p \in Procs |-> "original"]
    /\ statusBarActive = [p \in Procs |-> FALSE]
    /\ coordinationFile = NoFile
    /\ tempFile = [p \in Procs |-> NoFile]
    /\ pcSecond = [p \in Procs |-> "idle"]
    /\ openOn = [p \in Procs |-> "none"]
    /\ clock = 1
    /\ edits = 0
    /\ lastCall = "none"
    /\ handled = [p \in Procs |-> "none"]
    /\ maxSeen = [p \in Procs |-> 0]
    /\ userTitle = Undefined
    /\ preApply = NoPreApply

InitShared ==
    /\ InitCore
    /\ windowTitle = [ws |-> Undefined, g |-> Undefined]
    /\ titleManager = NewTitleManager

DefaultConfig ==
    [ enableColors |-> TRUE, keepInactiveWindowColors |-> FALSE,
      fullColorMode |-> FALSE, activeApplyDelay |-> 100,
      coordinationScope |-> "global" ]

InitTheme ==
    /\ InitShared
    /\ config = DefaultConfig
    /\ \E w \in {"workspace-1", NoWorkspace} :
           workspaceId = [p \in Procs |-> w]
    /\ workspaceDoc = [w \in Workspaces |-> EmptyDoc]
    /\ globalDoc = EmptyDoc

\* applyTheme with the base colour and mode the settings hold at the call
ThemeApply(p, baseColor, fullColorMode) ==
    /\ StoreCtx(p, applyTheme(Ctx(p), baseColor, fullColorMode))
    /\ lastCall' = IF applyTheme(Ctx(p), baseColor, fullColorMode) = Ctx(p)
                      THEN "applyTheme: skipped" ELSE "applyTheme"
    \* history: an apply that is not skipped records the document it found,
    \* and whether it opens an apply session (nothing applied, no snapshot)
    /\ preApply' = IF applyTheme(Ctx(p), baseColor, fullColorMode) = Ctx(p)
                      THEN NoPreApply
                      ELSE [fresh |-> ~tm[p].applied /\ workspaceState[p].stored = NoSnapshot,
                            doc |-> LocalDoc(Ctx(p))]
    /\ UNCHANGED <<config, workspaceId, titleVars, raceVars, procVars, fileVars, clock, edits, handled, maxSeen>>

ThemeRemove(p, forceDefaultInactive) ==
    /\ StoreCtx(p, removeTheme(Ctx(p), forceDefaultInactive))
    /\ lastCall' = IF forceDefaultInactive THEN "applyDefaultColors"
                    ELSE IF ~tm[p].applied /\ workspaceState[p].stored = NoSnapshot
                           THEN "removeTheme: nothing to remove"
                           ELSE "restoreOriginalCustomizations"
    /\ preApply' = NoPreApply
    /\ UNCHANGED <<config, workspaceId, titleVars, raceVars, procVars, fileVars, clock, edits, handled, maxSeen>>

\* the user, or another tool, rewrites one key of one document
ExternalEdit(global, key, value) ==
    /\ edits < MaxEdits
    /\ edits' = edits + 1
    /\ lastCall' = "edit"
    /\ global \/ HasWorkspace(1)
    /\ IF global
         THEN /\ globalDoc' = [globalDoc EXCEPT ![key] = value]
              /\ UNCHANGED workspaceDoc
         ELSE /\ workspaceDoc' = [workspaceDoc EXCEPT !["workspace-1"][key] = value]
              /\ UNCHANGED globalDoc
    /\ preApply' = NoPreApply
    /\ UNCHANGED <<config, workspaceId, titleVars, raceVars, procVars, tm, workspaceState, globalState,
                   fileVars, clock, handled, maxSeen>>

\* resetAllColors ('Reset all')
ThemeReset(p) ==
    /\ StoreCtx(p, resetAllColors(Ctx(p)))
    /\ lastCall' = "resetAllColors"
    /\ preApply' = NoPreApply
    /\ UNCHANGED <<config, workspaceId, titleVars, raceVars, procVars, fileVars, clock, edits, handled, maxSeen>>

\* the options initializeInternal can pass to ensureCleanStateOnStartup:
\* at most one of preserveTheme and forceDefaultInactive is true
StartupOptions ==
    { <<TRUE, FALSE>>, <<FALSE, TRUE>>, <<FALSE, FALSE>> }

\* the window is closed without a dispose and opened again: a new
\* ThemeManager runs ensureCleanStateOnStartup
ThemeStartup(p, preserveTheme, forceDefaultInactive) ==
    /\ StoreCtx(p, ensureCleanStateOnStartup(NewInstance(Ctx(p)),
                                             preserveTheme, forceDefaultInactive))
    /\ lastCall' = IF ~workspaceState[p].flag THEN "startup: flag not set"
                    ELSE IF preserveTheme THEN "startup: preserve"
                    ELSE IF forceDefaultInactive THEN "startup: applyDefaultColors"
                    ELSE "startup: restoreOriginalCustomizations"
    /\ preApply' = NoPreApply
    /\ UNCHANGED <<config, workspaceId, titleVars, raceVars, procVars, fileVars, clock, edits, handled, maxSeen>>

NextTheme ==
    \/ \E c \in {Blue, Orange}, full \in BOOLEAN : ThemeApply(1, c, full)
    \/ \E force \in BOOLEAN : ThemeRemove(1, force)
    \/ ThemeReset(1)
    \/ \E o \in StartupOptions : ThemeStartup(1, o[1], o[2])
    \/ \E g \in BOOLEAN, k \in EditKeys, v \in {Undefined, Null, UserValue} :
           ExternalEdit(g, k, v)

SpecTheme == InitTheme /\ [][NextTheme]_vars


(***************************************************************************)
(* FocusMarkManager.  One action per event handler or I/O completion.      *)
(* The theme and title calls a handler makes are part of its step; the     *)
(* coordination file's I/O (writeJson, rename, pathExists, readFile,       *)
(* remove) and the apply-delay timer are steps of their own, so that the   *)
(* reads and writes of different processes interleave.  A process has at   *)
(* most one activation task and one handleCoordinationChange task in       *)
(* flight.                                                                 *)
(***************************************************************************)
Settled(p) ==
    pcActivate[p] = "idle" /\ pcCoord[p] = "idle" /\ ~activeApplyTimer[p]

\* FocusMarkManager.applyTitleIndicator with the default, non-empty indicator
applyTitleIndicator(isActive) == IF isActive THEN "active" ELSE "inactive"

\* the theme part of FocusMarkManager.applyActiveAppearance
ActiveAppearanceOf(p, c) ==
    IF ~config.enableColors
      THEN removeTheme(c, FALSE)
      ELSE applyTheme(c, EffectiveColor(p), config.fullColorMode)

ActiveAppearance(p) == ActiveAppearanceOf(p, Ctx(p))

\* FocusMarkManager.applyActiveAppearance followed by the start of
\* notifyWindowActive: now = Date.now(); lastActivatedAt = now; the write of
\* the temp file is issued
ApplyAndStartNotify(p) ==
    /\ StoreCtx(p, ActiveAppearance(p))
    /\ title' = [title EXCEPT ![p] = applyTitleIndicator(TRUE)]
    /\ statusBarActive' = [statusBarActive EXCEPT ![p] = TRUE]
    /\ lastActivatedAt' = [lastActivatedAt EXCEPT ![p] = clock]
    /\ pcActivate' = [pcActivate EXCEPT ![p] = "writeJson"]

\* a variant that starts the announce when it arms the timer
handleUserInteraction_AnnouncesFirst(p) ==
    IF isWindowActive[p] \/ pcActivate[p] # "idle" \/ pcSecond[p] # "idle"
      THEN UNCHANGED <<isWindowActive, lastActivatedAt, activeApplyTimer, pcActivate,
                       title, statusBarActive, themeVars, handled>>
      ELSE /\ isWindowActive' = [isWindowActive EXCEPT ![p] = TRUE]
           /\ handled' = [handled EXCEPT ![p] = "none"]
           /\ IF config.activeApplyDelay > 0
                THEN /\ activeApplyTimer' = [activeApplyTimer EXCEPT ![p] = TRUE]
                     /\ pcActivate' = [pcActivate EXCEPT ![p] = "writeJson"]
                     /\ lastActivatedAt' = [lastActivatedAt EXCEPT ![p] = clock]
                     /\ UNCHANGED <<title, statusBarActive, themeVars>>
                ELSE /\ ApplyAndStartNotify(p)
                     /\ UNCHANGED activeApplyTimer

\* a variant in which an interaction that finds the timer pending applies
\* at once and leaves the timer armed
handleUserInteraction_AppliesOverTimer(p) ==
    IF pcActivate[p] = "timer"
      THEN /\ ApplyAndStartNotify(p)
           /\ UNCHANGED <<isWindowActive, activeApplyTimer, handled>>
      ELSE IF isWindowActive[p] \/ pcActivate[p] # "idle" \/ pcSecond[p] # "idle"
        THEN UNCHANGED <<isWindowActive, lastActivatedAt, activeApplyTimer, pcActivate,
                         title, statusBarActive, themeVars, handled>>
        ELSE /\ isWindowActive' = [isWindowActive EXCEPT ![p] = TRUE]
             /\ handled' = [handled EXCEPT ![p] = "none"]
             /\ IF config.activeApplyDelay > 0
                  THEN /\ activeApplyTimer' = [activeApplyTimer EXCEPT ![p] = TRUE]
                       /\ pcActivate' = [pcActivate EXCEPT ![p] = "timer"]
                       /\ UNCHANGED <<lastActivatedAt, title, statusBarActive, themeVars>>
                  ELSE /\ ApplyAndStartNotify(p)
                       /\ UNCHANGED activeApplyTimer

\* a variant that does not skip when the window is already active
handleUserInteraction_NoActiveCheck(p) ==
    IF pcActivate[p] # "idle" \/ pcSecond[p] # "idle"
      THEN UNCHANGED <<isWindowActive, lastActivatedAt, activeApplyTimer, pcActivate,
                       title, statusBarActive, themeVars, handled>>
      ELSE /\ isWindowActive' = [isWindowActive EXCEPT ![p] = TRUE]
           /\ handled' = [handled EXCEPT ![p] = "none"]
           /\ IF config.activeApplyDelay > 0
                THEN /\ activeApplyTimer' = [activeApplyTimer EXCEPT ![p] = TRUE]
                     /\ pcActivate' = [pcActivate EXCEPT ![p] = "timer"]
                     /\ UNCHANGED <<lastActivatedAt, title, statusBarActive, themeVars>>
                ELSE /\ ApplyAndStartNotify(p)
                     /\ UNCHANGED activeApplyTimer

\* FocusMarkManager.handleUserInteraction -> activateWindowAndNotify ->
\* applyActiveAppearanceWithDelay.  The branch on deactivateTimer is left
\* out: no statement of the class assigns the timer, so it is never set.
handleUserInteraction(p) ==
    IF isWindowActive[p] \/ pcActivate[p] # "idle" \/ pcSecond[p] # "idle"
      THEN UNCHANGED <<isWindowActive, lastActivatedAt, activeApplyTimer, pcActivate,
                       title, statusBarActive, themeVars, handled>>
      ELSE /\ isWindowActive' = [isWindowActive EXCEPT ![p] = TRUE]
           /\ handled' = [handled EXCEPT ![p] = "none"]
           /\ IF config.activeApplyDelay > 0
                THEN /\ activeApplyTimer' = [activeApplyTimer EXCEPT ![p] = TRUE]
                     /\ pcActivate' = [pcActivate EXCEPT ![p] = "timer"]
                     /\ UNCHANGED <<lastActivatedAt, title, statusBarActive, themeVars>>
                ELSE /\ ApplyAndStartNotify(p)
                     /\ UNCHANGED activeApplyTimer

\* onDidChangeWindowState, focused: the host reports focus to process p
FocusGained(p) ==
    /\ ~focused[p]
    /\ focused' = [focused EXCEPT ![p] = TRUE]
    /\ handleUserInteraction(p)
    /\ UNCHANGED <<config, workspaceId, preApply, titleVars, raceVars, deactivateTimer, pcCoord, fileVars, clock,
                   edits, lastCall, maxSeen>>

\* a variant in which the loss of focus deactivates the window
FocusLost_Deactivates(p) ==
    /\ focused[p]
    /\ focused' = [focused EXCEPT ![p] = FALSE]
    /\ isWindowActive' = [isWindowActive EXCEPT ![p] = FALSE]
    /\ UNCHANGED <<config, workspaceId, preApply, titleVars, raceVars, lastActivatedAt,
                   activeApplyTimer, deactivateTimer, pcActivate, pcCoord, title,
                   statusBarActive, themeVars, fileVars, clock, histVars>>

\* onDidChangeWindowState, not focused: nothing but the signal changes
FocusLost(p) ==
    /\ focused[p]
    /\ focused' = [focused EXCEPT ![p] = FALSE]
    /\ UNCHANGED <<config, workspaceId, preApply, titleVars, raceVars, isWindowActive, lastActivatedAt,
                   activeApplyTimer, deactivateTimer, pcActivate, pcCoord, title,
                   statusBarActive, themeVars, fileVars, clock, histVars>>

\* onDidChangeTextEditorSelection with a user-initiated kind (the handler is
\* registered until dispose has disposed it)
SelectionChange(p) ==
    /\ pcActivate[p] # "down"
    /\ handleUserInteraction(p)
    /\ UNCHANGED <<config, workspaceId, preApply, titleVars, raceVars, focused, deactivateTimer, pcCoord, fileVars,
                   clock, edits, lastCall, maxSeen>>

\* onDidChangeActiveTextEditor: a title refresh when active, an
\* interaction otherwise
EditorChange(p) ==
    /\ pcActivate[p] # "down"
    /\ IF isWindowActive[p]
         THEN /\ title' = [title EXCEPT ![p] = applyTitleIndicator(TRUE)]
              /\ UNCHANGED <<isWindowActive, lastActivatedAt, activeApplyTimer,
                             pcActivate, statusBarActive, themeVars, handled>>
         ELSE handleUserInteraction(p)
    /\ UNCHANGED <<config, workspaceId, preApply, titleVars, raceVars, focused, deactivateTimer, pcCoord, fileVars,
                   clock, edits, lastCall, maxSeen>>

\* the apply-delay timer fires: applyActiveAppearance, then the awaiting
\* activateWindowAndNotify goes on to notifyWindowActive
ApplyTimerFires(p) ==
    /\ pcActivate[p] = "timer"
    /\ activeApplyTimer[p]
    /\ activeApplyTimer' = [activeApplyTimer EXCEPT ![p] = FALSE]
    /\ ApplyAndStartNotify(p)
    /\ UNCHANGED <<config, workspaceId, preApply, titleVars, raceVars, focused, isWindowActive, deactivateTimer,
                   pcCoord, fileVars, clock, histVars>>

\* notifyWindowActive: fs.writeJson(tempFile, data) completes
NotifyWriteJson(p) ==
    /\ pcActivate[p] = "writeJson"
    /\ tempFile' = [tempFile EXCEPT
                       ![p] = Claim(p, workspaceId[p], lastActivatedAt[p])]
    /\ pcActivate' = [pcActivate EXCEPT ![p] = "rename"]
    /\ UNCHANGED <<config, workspaceId, preApply, titleVars, raceVars, focused, isWindowActive, lastActivatedAt,
                   activeApplyTimer, deactivateTimer, pcCoord, title, statusBarActive,
                   themeVars, coordinationFile, clock, histVars>>

\* notifyWindowActive: fs.rename(tempFile, coordinationFile) completes
NotifyRename(p) ==
    /\ pcActivate[p] = "rename"
    /\ tempFile[p] # NoFile
    /\ coordinationFile' = tempFile[p]
    /\ openOn' = Relinked(p)
    /\ tempFile' = [tempFile EXCEPT ![p] = NoFile]
    /\ pcActivate' = [pcActivate EXCEPT ![p] = "idle"]
    /\ handled' = IF coordinationFile' = coordinationFile
                     THEN handled ELSE [q \in Procs |-> "none"]
    /\ UNCHANGED <<config, workspaceId, preApply, titleVars, pcSecond, focused, isWindowActive, lastActivatedAt,
                   activeApplyTimer, deactivateTimer, pcCoord, title, statusBarActive,
                   themeVars, clock, edits, lastCall, maxSeen>>

\* a variant in which the failed announce takes the activation back
NotifyFails_Deactivates(p) ==
    /\ pcActivate[p] \in {"writeJson", "rename"}
    /\ pcActivate' = [pcActivate EXCEPT ![p] = "idle"]
    /\ isWindowActive' = [isWindowActive EXCEPT ![p] = FALSE]
    /\ UNCHANGED <<config, workspaceId, preApply, titleVars, raceVars, focused, lastActivatedAt,
                   activeApplyTimer, deactivateTimer, pcCoord, title, statusBarActive,
                   themeVars, fileVars, clock, histVars>>

\* notifyWindowActive: writeJson or rename throws; the catch logs the error
NotifyFails(p) ==
    /\ pcActivate[p] \in {"writeJson", "rename"}
    /\ pcActivate' = [pcActivate EXCEPT ![p] = "idle"]
    /\ UNCHANGED <<config, workspaceId, preApply, titleVars, raceVars, focused, isWindowActive, lastActivatedAt,
                   activeApplyTimer, deactivateTimer, pcCoord, title, statusBarActive,
                   themeVars, fileVars, clock, histVars>>

\* FocusMarkManager.deactivateWindow(preserveTheme), theme part
DeactivatedTheme(p, preserveTheme) ==
    LET forceDefaultInactive == ~config.keepInactiveWindowColors
        shouldPreserveTheme == preserveTheme /\ ~forceDefaultInactive
    IN  IF ~config.enableColors THEN removeTheme(Ctx(p), FALSE)
        ELSE IF ~shouldPreserveTheme THEN removeTheme(Ctx(p), forceDefaultInactive)
        ELSE Ctx(p)

\* a variant that leaves the title as it was
deactivateWindow_TitleKept(p, preserveTheme) ==
    IF ~isWindowActive[p] /\ ~tm[p].applied
      THEN UNCHANGED <<isWindowActive, activeApplyTimer, pcActivate, title,
                       statusBarActive, themeVars>>
      ELSE /\ isWindowActive' = [isWindowActive EXCEPT ![p] = FALSE]
           /\ activeApplyTimer' = [activeApplyTimer EXCEPT ![p] = FALSE]
           /\ pcActivate' = [pcActivate EXCEPT
                                ![p] = IF @ = "timer" THEN "idle" ELSE @]
           /\ title' = title
           /\ statusBarActive' = [statusBarActive EXCEPT ![p] = FALSE]
           /\ StoreCtx(p, DeactivatedTheme(p, preserveTheme))

\* a variant that leaves a pending apply-delay timer armed
deactivateWindow_KeepsTimer(p, preserveTheme) ==
    IF ~isWindowActive[p] /\ ~tm[p].applied
      THEN UNCHANGED <<isWindowActive, activeApplyTimer, pcActivate, title,
                       statusBarActive, themeVars>>
      ELSE /\ isWindowActive' = [isWindowActive EXCEPT ![p] = FALSE]
           /\ UNCHANGED <<activeApplyTimer, pcActivate>>
           /\ title' = [title EXCEPT ![p] = "inactive"]
           /\ statusBarActive' = [statusBarActive EXCEPT ![p] = FALSE]
           /\ StoreCtx(p, DeactivatedTheme(p, preserveTheme))

\* FocusMarkManager.deactivateWindow(preserveTheme)
deactivateWindow(p, preserveTheme) ==
    IF ~isWindowActive[p] /\ ~tm[p].applied
      THEN UNCHANGED <<isWindowActive, activeApplyTimer, pcActivate, title,
                       statusBarActive, themeVars>>
      ELSE /\ isWindowActive' = [isWindowActive EXCEPT ![p] = FALSE]
           /\ activeApplyTimer' = [activeApplyTimer EXCEPT ![p] = FALSE]
           /\ pcActivate' = [pcActivate EXCEPT
                                ![p] = IF @ = "timer" THEN "idle" ELSE @]
           /\ title' = [title EXCEPT ![p] = "inactive"]
           /\ statusBarActive' = [statusBarActive EXCEPT ![p] = FALSE]
           /\ StoreCtx(p, DeactivatedTheme(p, preserveTheme))

\* a variant that arms the deactivation timer and leaves the deactivation
\* to its expiry
scheduleDeactivation_Deferred(p, preserveTheme) ==
    /\ deactivateTimer' = [deactivateTimer EXCEPT ![p] = TRUE]
    /\ UNCHANGED <<isWindowActive, activeApplyTimer, pcActivate, title,
                   statusBarActive, themeVars>>

\* FocusMarkManager.scheduleDeactivation: clearDeactivateTimer, then
\* deactivateWindow within the same call
scheduleDeactivation(p, preserveTheme) ==
    /\ deactivateTimer' = [deactivateTimer EXCEPT ![p] = FALSE]
    /\ deactivateWindow(p, preserveTheme)

\* the checks of handleCoordinationChange on a parsed record
\* a variant that only rejects a record without an id
IsOwnOrInvalid_NoOwnCheck(p, data) == data.activeWindowId = 0

IsOwnOrInvalid(p, data) == data.activeWindowId = 0 \/ data.activeWindowId = p

\* a variant with the comparison the wrong way round
IsStale_Reversed(p, data) == data.timestamp >= lastActivatedAt[p]

\* a variant that lets a record of equal timestamp through
IsStale_Strict(p, data) == lastActivatedAt[p] > data.timestamp

\* a variant without the timestamp filter
IsStale_Never(p, data) == FALSE

IsStale(p, data) == lastActivatedAt[p] >= data.timestamp

SameWorkspace(p, data) == data.workspaceId # "" /\ data.workspaceId = workspaceId[p]

\* a variant that applies the workspace scope whatever the setting
OutOfScope_AnyScope(p, data) == ~SameWorkspace(p, data)

\* a variant that never applies the workspace scope
OutOfScope_Never(p, data) == FALSE

OutOfScope(p, data) ==
    config.coordinationScope = "workspace" /\ ~SameWorkspace(p, data)

\* a variant without the focus check
Outcome_NoFocusCheck(p, data) ==
    IF IsOwnOrInvalid(p, data) THEN "own or invalid"
    ELSE IF IsStale(p, data) THEN "stale"
    ELSE IF ~(isWindowActive[p] \/ tm[p].applied) THEN "already inactive"
    ELSE IF OutOfScope(p, data) THEN "out of scope"
    ELSE "deactivate"

\* the branch handleCoordinationChange takes on a parsed record, in the
\* order of its checks
Outcome(p, data) ==
    IF IsOwnOrInvalid(p, data) THEN "own or invalid"
    ELSE IF focused[p] THEN "focused"
    ELSE IF IsStale(p, data) THEN "stale"
    ELSE IF ~(isWindowActive[p] \/ tm[p].applied) THEN "already inactive"
    ELSE IF OutOfScope(p, data) THEN "out of scope"
    ELSE "deactivate"

\* a variant that preserves the palette whatever the claimant's workspace
DecideOnRecord_PreserveAnyGroup(p, data) ==
    IF Outcome(p, data) = "deactivate"
      THEN scheduleDeactivation(p, config.keepInactiveWindowColors)
      ELSE UNCHANGED <<isWindowActive, activeApplyTimer, deactivateTimer, pcActivate,
                       title, statusBarActive, themeVars>>

\* handleCoordinationChange on a parsed record
DecideOnRecord(p, data) ==
    IF Outcome(p, data) = "deactivate"
      THEN scheduleDeactivation(p, config.keepInactiveWindowColors /\ SameWorkspace(p, data))
      ELSE UNCHANGED <<isWindowActive, activeApplyTimer, deactivateTimer, pcActivate,
                       title, statusBarActive, themeVars>>

\* the backup poller ticks, or the watcher reports the file: fs.pathExists
CoordinationCheck(p) ==
    /\ pcCoord[p] = "idle"
    /\ coordinationFile # NoFile
    /\ pcCoord' = [pcCoord EXCEPT ![p] = "readFile"]
    /\ UNCHANGED <<config, workspaceId, preApply, titleVars, raceVars, focused, isWindowActive, lastActivatedAt,
                   activeApplyTimer, deactivateTimer, pcActivate, title,
                   statusBarActive, themeVars, fileVars, clock, histVars>>

\* fs.readFile completes with a record: parse it and decide
CoordinationRead(p) ==
    /\ pcCoord[p] = "readFile"
    /\ coordinationFile.kind = "claim"
    /\ pcCoord' = [pcCoord EXCEPT ![p] = "idle"]
    /\ DecideOnRecord(p, coordinationFile)
    /\ handled' = [handled EXCEPT ![p] = Outcome(p, coordinationFile)]
    /\ maxSeen' = [maxSeen EXCEPT
                      ![p] = IF ~IsOwnOrInvalid(p, coordinationFile)
                                  /\ coordinationFile.timestamp > @
                               THEN coordinationFile.timestamp ELSE @]
    /\ UNCHANGED <<config, workspaceId, preApply, titleVars, raceVars, focused, lastActivatedAt,
                   fileVars, clock, edits, lastCall>>

\* fs.readFile throws (the file is gone) or JSON.parse throws: the catch
\* issues fs.remove
CoordinationReadFails(p) ==
    /\ pcCoord[p] = "readFile"
    /\ coordinationFile.kind \notin {"claim", "empty"}
    /\ pcCoord' = [pcCoord EXCEPT ![p] = "remove"]
    /\ UNCHANGED <<config, workspaceId, preApply, titleVars, raceVars, focused, isWindowActive, lastActivatedAt,
                   activeApplyTimer, deactivateTimer, pcActivate, title,
                   statusBarActive, themeVars, fileVars, clock, histVars>>

\* a variant in which the remove leaves the file where it is
CoordinationRemove_KeepsFile(p) ==
    /\ pcCoord[p] = "remove"
    /\ pcCoord' = [pcCoord EXCEPT ![p] = "idle"]
    /\ UNCHANGED <<config, workspaceId, preApply, titleVars, raceVars, focused, isWindowActive,
                   lastActivatedAt, activeApplyTimer, deactivateTimer, pcActivate,
                   title, statusBarActive, themeVars, fileVars, clock, histVars>>

\* fs.remove(coordinationFile) completes
CoordinationRemove(p) ==
    /\ pcCoord[p] = "remove"
    /\ coordinationFile' = NoFile
    /\ openOn' = Unlinked
    /\ pcCoord' = [pcCoord EXCEPT ![p] = "idle"]
    /\ handled' = IF coordinationFile = NoFile
                     THEN handled ELSE [q \in Procs |-> "none"]
    /\ UNCHANGED <<config, workspaceId, preApply, titleVars, pcSecond, focused, isWindowActive, lastActivatedAt,
                   activeApplyTimer, deactivateTimer, pcActivate, title,
                   statusBarActive, themeVars, tempFile, clock, edits, lastCall,
                   maxSeen>>

(***************************************************************************)
(* The environment of Spec.                                                *)
(***************************************************************************)
\* the wall clock advances
Tick ==
    /\ clock < MaxClock
    /\ clock' = clock + 1
    /\ UNCHANGED <<config, workspaceId, preApply, titleVars, raceVars, procVars, themeVars, fileVars, histVars>>

\* what a writer outside Procs can leave in the file: a record bearing no
\* id (0), or the id of any window, with or without a workspaceId, stamped
\* in the past, now or ahead of the clock; or bytes that do not parse
ForeignRecords ==
    { Claim(id, ws, ts) : id \in 0 .. NumProcs,
                          ws \in Workspaces \cup {""},
                          ts \in 1 .. MaxClock + 1 }
      \cup {Corrupt}

SessionRecords == {Corrupt}

ForeignWrite(rec, max) ==
    /\ edits < max
    /\ edits' = edits + 1
    /\ coordinationFile' = rec
    /\ handled' = IF rec = coordinationFile
                     THEN handled ELSE [q \in Procs |-> "none"]
    /\ UNCHANGED <<config, workspaceId, preApply, titleVars, raceVars, procVars, themeVars, tempFile, clock,
                   lastCall, maxSeen>>

Configs ==
    [ enableColors : {TRUE}, keepInactiveWindowColors : BOOLEAN,
      fullColorMode : {FALSE}, activeApplyDelay : {0, 100},
      coordinationScope : {"global", "workspace"} ]

\* the settings of workspace-1 hold a colour of the user's before any
\* window starts; those of workspace-2 hold none
UserDoc == [EmptyDoc EXCEPT !["titleBar.activeBackground"] = UserValue]

Init ==
    /\ InitShared
    /\ config \in Configs
    /\ workspaceId \in [Procs -> Workspaces]
    /\ workspaceId[1] = "workspace-1"
    /\ workspaceDoc = [w \in Workspaces |->
                         IF w = "workspace-1" THEN UserDoc ELSE EmptyDoc]
    /\ globalDoc = EmptyDoc

\* every step process p can take
ProcNext(p) ==
    \/ FocusGained(p)
    \/ FocusLost(p)
    \/ SelectionChange(p)
    \/ EditorChange(p)
    \/ ApplyTimerFires(p)
    \/ NotifyWriteJson(p)
    \/ NotifyRename(p)
    \/ NotifyFails(p)
    \/ CoordinationCheck(p)
    \/ CoordinationRead(p)
    \/ CoordinationReadFails(p)
    \/ CoordinationRemove(p)

\* Spec: all the processes, and a writer outside them that leaves bytes
\* that do not parse (a torn or hand-edited file)
Next ==
    \/ \E p \in Procs : ProcNext(p)
    \/ \E rec \in SessionRecords : ForeignWrite(rec, MaxForeignWrites)
    \/ Tick

Spec == Init /\ [][Next]_vars

\* SpecRecords: process 1 against a writer that leaves any record at all;
\* the other processes stay as constructed, their claims being among the
\* records the writer leaves
NextRecords ==
    \/ ProcNext(1)
    \/ \E rec \in ForeignRecords : ForeignWrite(rec, MaxRecords)
    \/ Tick

InitRecords ==
    /\ Init
    /\ workspaceId = [p \in Procs |-> "workspace-1"]

SpecRecords == InitRecords /\ [][NextRecords]_vars

\* SpecPoll: SpecRecords with the backup poller of process 1 running (it
\* ticks every 2000 ms) and the file operations it starts completing
SpecPoll ==
    /\ SpecRecords
    /\ WF_vars(CoordinationCheck(1))
    /\ WF_vars(CoordinationRead(1))
    /\ WF_vars(CoordinationReadFails(1))
    /\ WF_vars(CoordinationRemove(1))

\* SpecHeal: SpecPoll under global scope
InitHeal ==
    /\ InitRecords
    /\ config.coordinationScope = "global"

SpecHeal ==
    /\ InitHeal
    /\ [][NextRecords]_vars
    /\ WF_vars(CoordinationCheck(1))
    /\ WF_vars(CoordinationRead(1))
    /\ WF_vars(CoordinationReadFails(1))
    /\ WF_vars(CoordinationRemove(1))

\* the window of process p goes away without a dispose (the host is
\* killed): the fields of its objects are lost, while the documents, the
\* durable stores, the window.title setting and the files stay as they are
Crash(p) ==
    /\ pcActivate[p] # "down"
    /\ focused' = [focused EXCEPT ![p] = FALSE]
    /\ isWindowActive' = [isWindowActive EXCEPT ![p] = FALSE]
    /\ lastActivatedAt' = [lastActivatedAt EXCEPT ![p] = 0]
    /\ activeApplyTimer' = [activeApplyTimer EXCEPT ![p] = FALSE]
    /\ pcActivate' = [pcActivate EXCEPT ![p] = "down"]
    /\ pcCoord' = [pcCoord EXCEPT ![p] = "down"]
    /\ statusBarActive' = [statusBarActive EXCEPT ![p] = FALSE]
    /\ tm' = [tm EXCEPT ![p] = NewThemeManager]
    /\ handled' = [handled EXCEPT ![p] = "none"]
    /\ maxSeen' = [maxSeen EXCEPT ![p] = 0]
    /\ lastCall' = "crash"
    /\ UNCHANGED <<config, workspaceId, preApply, titleVars, raceVars, deactivateTimer, title, workspaceState,
                   globalState, workspaceDoc, globalDoc, fileVars, clock, edits>>

\* the options initializeInternal passes to ensureCleanStateOnStartup, the
\* extension being enabled
StartupPreserveTheme(isFocused) ==
    config.enableColors /\ (isFocused \/ config.keepInactiveWindowColors)

\* a variant that never asks for the defaults
StartupForceDefaultInactive_Never(isFocused) == FALSE

StartupForceDefaultInactive(isFocused) ==
    config.enableColors /\ ~config.keepInactiveWindowColors /\ ~isFocused

\* the branch of ensureCleanStateOnStartup the options select
StartupBranch(p) ==
    IF ~workspaceState[p].flag THEN "flag not set"
    ELSE IF StartupPreserveTheme(focused[p]) THEN "preserve"
    ELSE IF StartupForceDefaultInactive(focused[p]) THEN "applyDefaultColors"
    ELSE "restoreOriginalCustomizations"

\* a variant of the fast-start that goes through the apply delay
InitializeFocused_Delayed(p, c) ==
    /\ isWindowActive' = [isWindowActive EXCEPT ![p] = TRUE]
    /\ StoreCtx(p, c)
    /\ activeApplyTimer' = [activeApplyTimer EXCEPT ![p] = config.activeApplyDelay > 0]
    /\ pcActivate' = [pcActivate EXCEPT ![p] =
                         IF config.activeApplyDelay > 0 THEN "timer" ELSE "writeJson"]
    /\ lastActivatedAt' = [lastActivatedAt EXCEPT ![p] =
                         IF config.activeApplyDelay > 0 THEN 0 ELSE clock]
    /\ UNCHANGED <<title, statusBarActive>>

\* initializeInternal, window focused: isWindowActive = true,
\* applyActiveAppearance, and notifyWindowActive is started
InitializeFocused(p, c) ==
    /\ isWindowActive' = [isWindowActive EXCEPT ![p] = TRUE]
    /\ StoreCtx(p, ActiveAppearanceOf(p, c))
    /\ title' = [title EXCEPT ![p] = applyTitleIndicator(TRUE)]
    /\ statusBarActive' = [statusBarActive EXCEPT ![p] = TRUE]
    /\ lastActivatedAt' = [lastActivatedAt EXCEPT ![p] = clock]
    /\ pcActivate' = [pcActivate EXCEPT ![p] = "writeJson"]
    /\ UNCHANGED activeApplyTimer

\* FocusMarkManager.initializeInternal in a window opened again:
\* ensureCleanStateOnStartup on a new ThemeManager, the handlers, the
\* watcher and the poller are set up, then the fast-start when the window
\* is focused, and ensureInitialActiveState (which returns) when it is not
Initialize(p) ==
    LET c == ensureCleanStateOnStartup(NewInstance(Ctx(p)),
                                       StartupPreserveTheme(focused[p]),
                                       StartupForceDefaultInactive(focused[p]))
    IN  /\ pcActivate[p] = "down"
        /\ pcCoord' = [pcCoord EXCEPT ![p] = "idle"]
        /\ IF focused[p]
             THEN InitializeFocused(p, c)
             ELSE /\ StoreCtx(p, c)
                  /\ pcActivate' = [pcActivate EXCEPT ![p] = "idle"]
                  /\ UNCHANGED <<isWindowActive, lastActivatedAt, activeApplyTimer,
                                 title, statusBarActive>>
        /\ lastCall' = IF focused[p] THEN "initialize: focused"
                                      ELSE "initialize: not focused"
        /\ UNCHANGED <<config, workspaceId, preApply, titleVars, raceVars, focused, deactivateTimer, fileVars,
                       clock, edits, handled, maxSeen>>

\* SpecStartup: process 1 is killed and opened again at any moment, with
\* colours enabled or not
StartupConfigs ==
    [ enableColors : BOOLEAN, keepInactiveWindowColors : BOOLEAN,
      fullColorMode : {FALSE}, activeApplyDelay : {0, 100},
      coordinationScope : {"global"} ]

InitStartup ==
    /\ InitShared
    /\ config \in StartupConfigs
    /\ workspaceId = [p \in Procs |-> "workspace-1"]
    /\ workspaceDoc = [w \in Workspaces |->
                         IF w = "workspace-1" THEN UserDoc ELSE EmptyDoc]
    /\ globalDoc = EmptyDoc

NextStartup ==
    \/ ProcNext(1)
    \/ Crash(1)
    \/ Initialize(1)
    \/ \E rec \in SessionRecords : ForeignWrite(rec, MaxForeignWrites)
    \/ Tick

SpecStartup == InitStartup /\ [][NextStartup]_vars

(***************************************************************************)
(* SpecAnnounce: two windows with the default settings and no apply delay, *)
(* where process 1 can start a second activation while the announce of an  *)
(* earlier one still awaits its rename.  handleUserInteraction tests only  *)
(* isWindowActive, so an interaction that follows a deactivation runs      *)
(* activateWindowAndNotify again whatever the earlier call is doing; both  *)
(* calls use the temp file coordination.json.<windowId>.tmp.  fs.writeJson *)
(* opens the file with flag 'w', which truncates it, and then writes it.   *)
(***************************************************************************)
\* an interaction handler runs handleUserInteraction in a deactivated
\* window while the announce of the earlier activation awaits its rename
InteractionDuringAnnounce(p) ==
    /\ ~isWindowActive[p]
    /\ pcActivate[p] = "rename"
    /\ pcSecond[p] = "idle"
    /\ config.activeApplyDelay = 0
    /\ isWindowActive' = [isWindowActive EXCEPT ![p] = TRUE]
    /\ handled' = [handled EXCEPT ![p] = "none"]
    /\ StoreCtx(p, ActiveAppearance(p))
    /\ title' = [title EXCEPT ![p] = applyTitleIndicator(TRUE)]
    /\ statusBarActive' = [statusBarActive EXCEPT ![p] = TRUE]
    /\ lastActivatedAt' = [lastActivatedAt EXCEPT ![p] = clock]
    /\ pcSecond' = [pcSecond EXCEPT ![p] = "writeJson"]
    /\ UNCHANGED <<config, workspaceId, preApply, titleVars, focused, activeApplyTimer, deactivateTimer,
                   pcActivate, pcCoord, fileVars, openOn, clock, edits, lastCall,
                   maxSeen>>

\* the second notifyWindowActive: fs.writeJson opens the temp file
SecondOpen(p) ==
    /\ pcSecond[p] = "writeJson"
    /\ tempFile' = [tempFile EXCEPT ![p] = Empty]
    /\ openOn' = [openOn EXCEPT ![p] = "temp"]
    /\ pcSecond' = [pcSecond EXCEPT ![p] = "writing"]
    /\ UNCHANGED <<config, workspaceId, preApply, titleVars, procVars, themeVars, coordinationFile,
                   clock, histVars>>

\* fs.writeJson writes the record into the file it opened, under whatever
\* name that file has by now, and closes it
SecondWrite(p) ==
    LET data == Claim(p, workspaceId[p], lastActivatedAt[p])
    IN  /\ pcSecond[p] = "writing"
        /\ tempFile' = IF openOn[p] = "temp"
                          THEN [tempFile EXCEPT ![p] = data] ELSE tempFile
        /\ coordinationFile' = IF openOn[p] = "file" THEN data ELSE coordinationFile
        /\ openOn' = [openOn EXCEPT ![p] = "none"]
        /\ pcSecond' = [pcSecond EXCEPT ![p] = "rename"]
        /\ handled' = IF coordinationFile' = coordinationFile
                         THEN handled ELSE [q \in Procs |-> "none"]
        /\ UNCHANGED <<config, workspaceId, preApply, titleVars, procVars, themeVars, clock, edits,
                       lastCall, maxSeen>>

\* fs.rename(tempFile, coordinationFile) of the second notifyWindowActive
SecondRename(p) ==
    /\ pcSecond[p] = "rename"
    /\ tempFile[p] # NoFile
    /\ coordinationFile' = tempFile[p]
    /\ tempFile' = [tempFile EXCEPT ![p] = NoFile]
    /\ openOn' = Relinked(p)
    /\ pcSecond' = [pcSecond EXCEPT ![p] = "idle"]
    /\ handled' = IF coordinationFile' = coordinationFile
                     THEN handled ELSE [q \in Procs |-> "none"]
    /\ UNCHANGED <<config, workspaceId, preApply, titleVars, procVars, themeVars, clock, edits,
                   lastCall, maxSeen>>

\* writeJson or rename of the second notifyWindowActive throws (rename
\* does when the first call has moved the temp file away)
SecondFails(p) ==
    /\ pcSecond[p] \in {"writeJson", "writing", "rename"}
    /\ pcSecond' = [pcSecond EXCEPT ![p] = "idle"]
    /\ openOn' = [openOn EXCEPT ![p] = "none"]
    /\ UNCHANGED <<config, workspaceId, preApply, titleVars, procVars, themeVars, fileVars, clock,
                   histVars>>

\* handleCoordinationChange: fs.readFile returns nothing but white space;
\* the handler logs 'File is empty' and returns
CoordinationReadEmpty(p) ==
    /\ pcCoord[p] = "readFile"
    /\ coordinationFile.kind = "empty"
    /\ pcCoord' = [pcCoord EXCEPT ![p] = "idle"]
    /\ UNCHANGED <<config, workspaceId, preApply, titleVars, raceVars, focused, isWindowActive,
                   lastActivatedAt, activeApplyTimer, deactivateTimer, pcActivate,
                   title, statusBarActive, themeVars, fileVars, clock, histVars>>

AnnounceConfig ==
    [ enableColors |-> TRUE, keepInactiveWindowColors |-> FALSE,
      fullColorMode |-> FALSE, activeApplyDelay |-> 0,
      coordinationScope |-> "global" ]

InitAnnounce ==
    /\ InitRecords
    /\ config = AnnounceConfig

AnnounceNext(p) ==
    \/ FocusGained(p)
    \/ FocusLost(p)
    \/ SelectionChange(p)
    \/ EditorChange(p)
    \/ NotifyWriteJson(p)
    \/ NotifyRename(p)
    \/ NotifyFails(p)
    \/ CoordinationCheck(p)
    \/ CoordinationRead(p)
    \/ CoordinationReadEmpty(p)

NextAnnounce ==
    \/ \E p \in Procs : AnnounceNext(p)
    \/ InteractionDuringAnnounce(1)
    \/ SecondOpen(1)
    \/ SecondWrite(1)
    \/ SecondRename(1)
    \/ SecondFails(1)
    \/ Tick

SpecAnnounce == InitAnnounce /\ [][NextAnnounce]_vars

(***************************************************************************)
(* SpecShutdown: the windows of Spec, in which process 1 can be disposed.  *)
(***************************************************************************)
\* FocusMarkManager.dispose up to the first await of
\* cleanupCoordinationFile: the watcher is closed, the timers are cleared,
\* fs.pathExists is answered.  Taken when no other task of the window is
\* in flight.
Dispose(p) ==
    /\ Settled(p)
    /\ pcSecond[p] = "idle"
    /\ pcActivate' = [pcActivate EXCEPT ![p] = "disposing"]
    /\ pcCoord' = [pcCoord EXCEPT ![p] =
                      IF coordinationFile = NoFile THEN "cleanupDone" ELSE "cleanupRead"]
    /\ UNCHANGED <<config, workspaceId, preApply, titleVars, raceVars, focused, isWindowActive,
                   lastActivatedAt, activeApplyTimer, deactivateTimer, title,
                   statusBarActive, themeVars, fileVars, clock, histVars>>

\* what cleanupCoordinationFile does with what fs.readFile gave it: remove
\* on the window's own record, and on a read or parse error
CleanupRemoves(p, data) ==
    \/ data.kind = "claim" /\ data.activeWindowId = p
    \/ data.kind \in {"corrupt", "none"}

\* cleanupCoordinationFile: fs.readFile returns (or throws) and the content
\* is examined; fs.remove is issued or not
CleanupRead(p) ==
    /\ pcCoord[p] = "cleanupRead"
    /\ pcCoord' = [pcCoord EXCEPT ![p] =
                      IF CleanupRemoves(p, coordinationFile)
                        THEN "cleanupRemove" ELSE "cleanupDone"]
    /\ UNCHANGED <<config, workspaceId, preApply, titleVars, raceVars, focused, isWindowActive,
                   lastActivatedAt, activeApplyTimer, deactivateTimer, pcActivate,
                   title, statusBarActive, themeVars, fileVars, clock, histVars>>

\* cleanupCoordinationFile: fs.remove(coordinationFile) completes
CleanupRemove(p) ==
    /\ pcCoord[p] = "cleanupRemove"
    /\ coordinationFile' = NoFile
    /\ openOn' = Unlinked
    /\ pcCoord' = [pcCoord EXCEPT ![p] = "cleanupDone"]
    /\ handled' = IF coordinationFile = NoFile
                     THEN handled ELSE [q \in Procs |-> "none"]
    /\ UNCHANGED <<config, workspaceId, preApply, titleVars, pcSecond, focused, isWindowActive,
                   lastActivatedAt, activeApplyTimer, deactivateTimer, pcActivate,
                   title, statusBarActive, themeVars, tempFile, clock, edits,
                   lastCall, maxSeen>>

\* the rest of dispose: the handlers and the poller are disposed, the
\* status bar item goes, TitleManager.dispose resets the title,
\* ThemeManager.dispose runs removeTheme; the window is gone
DisposeFinish(p) ==
    /\ pcCoord[p] = "cleanupDone"
    /\ StoreCtx(p, removeTheme(Ctx(p), FALSE))
    /\ title' = [title EXCEPT ![p] = "original"]
    /\ statusBarActive' = [statusBarActive EXCEPT ![p] = FALSE]
    /\ focused' = [focused EXCEPT ![p] = FALSE]
    /\ pcActivate' = [pcActivate EXCEPT ![p] = "down"]
    /\ pcCoord' = [pcCoord EXCEPT ![p] = "down"]
    /\ handled' = [handled EXCEPT ![p] = "none"]
    /\ maxSeen' = [maxSeen EXCEPT ![p] = 0]
    /\ UNCHANGED <<config, workspaceId, preApply, titleVars, raceVars, isWindowActive, lastActivatedAt,
                   activeApplyTimer, deactivateTimer, fileVars, clock, edits,
                   lastCall>>

NextShutdown ==
    \/ \E p \in Procs : ProcNext(p)
    \/ Dispose(1)
    \/ CleanupRead(1)
    \/ CleanupRemove(1)
    \/ DisposeFinish(1)
    \/ \E rec \in SessionRecords : ForeignWrite(rec, MaxForeignWrites)
    \/ Tick

InitShutdown ==
    /\ InitRecords
    /\ ~config.keepInactiveWindowColors
    /\ config.coordinationScope = "global"

SpecShutdown == InitShutdown /\ [][NextShutdown]_vars

(***************************************************************************)
(* SpecDispose: process 1 alone, with its disposal.  dispose clears the    *)
(* timers, then awaits cleanupCoordinationFile, and only then disposes the *)
(* interaction handlers and the poller: an interaction handler can run     *)
(* while the cleanup is awaited.                                           *)
(***************************************************************************)
\* handleUserInteraction -> activateWindowAndNotify while dispose awaits
\* cleanupCoordinationFile: with a delay the timer is armed, without one the
\* appearance is applied and notifyWindowActive starts
InteractionDuringCleanup(p) ==
    /\ pcActivate[p] = "disposing"
    /\ ~isWindowActive[p]
    /\ pcSecond[p] = "idle"
    /\ isWindowActive' = [isWindowActive EXCEPT ![p] = TRUE]
    /\ IF config.activeApplyDelay > 0
         THEN /\ activeApplyTimer' = [activeApplyTimer EXCEPT ![p] = TRUE]
              /\ UNCHANGED <<lastActivatedAt, title, statusBarActive, themeVars,
                             pcSecond>>
         ELSE /\ StoreCtx(p, ActiveAppearance(p))
              /\ title' = [title EXCEPT ![p] = applyTitleIndicator(TRUE)]
              /\ statusBarActive' = [statusBarActive EXCEPT ![p] = TRUE]
              /\ lastActivatedAt' = [lastActivatedAt EXCEPT ![p] = clock]
              /\ pcSecond' = [pcSecond EXCEPT ![p] = "writeJson"]
              /\ UNCHANGED activeApplyTimer
    /\ UNCHANGED <<config, workspaceId, preApply, titleVars, focused, deactivateTimer, pcActivate,
                   pcCoord, fileVars, openOn, clock, histVars>>

\* the timer armed during the cleanup fires, during the rest of dispose or
\* after it: applyActiveAppearance, then notifyWindowActive starts
LateTimerFires(p) ==
    /\ pcActivate[p] \in {"disposing", "down"}
    /\ activeApplyTimer[p]
    /\ activeApplyTimer' = [activeApplyTimer EXCEPT ![p] = FALSE]
    /\ IF isWindowActive[p]
         THEN /\ StoreCtx(p, ActiveAppearance(p))
              /\ title' = [title EXCEPT ![p] = applyTitleIndicator(TRUE)]
              /\ statusBarActive' = [statusBarActive EXCEPT ![p] = TRUE]
         ELSE UNCHANGED <<title, statusBarActive, themeVars>>
    /\ lastActivatedAt' = [lastActivatedAt EXCEPT ![p] = clock]
    /\ pcSecond' = [pcSecond EXCEPT ![p] = "writeJson"]
    /\ UNCHANGED <<config, workspaceId, preApply, titleVars, focused, isWindowActive, deactivateTimer,
                   pcActivate, pcCoord, fileVars, openOn, clock, histVars>>

NextDispose ==
    \/ ProcNext(1)
    \/ Dispose(1)
    \/ CleanupRead(1)
    \/ CleanupRemove(1)
    \/ DisposeFinish(1)
    \/ InteractionDuringCleanup(1)
    \/ LateTimerFires(1)
    \/ SecondOpen(1)
    \/ SecondWrite(1)
    \/ SecondRename(1)
    \/ SecondFails(1)
    \/ \E rec \in SessionRecords : ForeignWrite(rec, MaxForeignWrites)
    \/ Tick

SpecDispose == InitShutdown /\ [][NextDispose]_vars

(***************************************************************************)
(* SpecCommand: process 1 alone, with the command "apply theme".  The      *)
(* command runs whatever an earlier activation is doing; its announce is   *)
(* then the second notifyWindowActive of the window.                       *)
(***************************************************************************)
\* a variant that does not look at the focus of the window
applyThemeFromCommand_NoFocusCheck(p, isEnabled) ==
    IF ~isEnabled
      THEN /\ lastCall' = "applyThemeFromCommand: returned"
           /\ UNCHANGED <<isWindowActive, lastActivatedAt, pcActivate, title,
                          statusBarActive, themeVars, pcSecond, handled>>
      ELSE /\ lastCall' = "applyThemeFromCommand"
           /\ isWindowActive' = [isWindowActive EXCEPT ![p] = TRUE]
           /\ handled' = [handled EXCEPT ![p] = "none"]
           /\ StoreCtx(p, ActiveAppearance(p))
           /\ title' = [title EXCEPT ![p] = applyTitleIndicator(TRUE)]
           /\ statusBarActive' = [statusBarActive EXCEPT ![p] = TRUE]
           /\ lastActivatedAt' = [lastActivatedAt EXCEPT ![p] = clock]
           /\ IF pcActivate[p] = "idle"
                THEN /\ pcActivate' = [pcActivate EXCEPT ![p] = "writeJson"]
                     /\ UNCHANGED pcSecond
                ELSE /\ pcSecond' = [pcSecond EXCEPT ![p] = "writeJson"]
                     /\ UNCHANGED pcActivate

\* FocusMarkManager.applyThemeFromCommand up to the first await of
\* notifyWindowActive; isEnabled is what configManager.isEnabled() returns
applyThemeFromCommand(p, isEnabled) ==
    IF ~isEnabled \/ ~focused[p]
      THEN /\ lastCall' = "applyThemeFromCommand: returned"
           /\ UNCHANGED <<isWindowActive, lastActivatedAt, pcActivate, title,
                          statusBarActive, themeVars, pcSecond, handled>>
      ELSE /\ lastCall' = "applyThemeFromCommand"
           /\ isWindowActive' = [isWindowActive EXCEPT ![p] = TRUE]
           /\ handled' = [handled EXCEPT ![p] = "none"]
           /\ StoreCtx(p, ActiveAppearance(p))
           /\ title' = [title EXCEPT ![p] = applyTitleIndicator(TRUE)]
           /\ statusBarActive' = [statusBarActive EXCEPT ![p] = TRUE]
           /\ lastActivatedAt' = [lastActivatedAt EXCEPT ![p] = clock]
           /\ IF pcActivate[p] = "idle"
                THEN /\ pcActivate' = [pcActivate EXCEPT ![p] = "writeJson"]
                     /\ UNCHANGED pcSecond
                ELSE /\ pcSecond' = [pcSecond EXCEPT ![p] = "writeJson"]
                     /\ UNCHANGED pcActivate

\* the command is run in process p; at most two announces of one window
\* are followed at a time
ApplyThemeCommand(p, isEnabled) ==
    /\ pcSecond[p] = "idle"
    /\ applyThemeFromCommand(p, isEnabled)
    /\ UNCHANGED <<config, workspaceId, preApply, titleVars, focused, activeApplyTimer, deactivateTimer,
                   pcCoord, fileVars, openOn, clock, edits, maxSeen>>

NextCommand ==
    \/ ProcNext(1)
    \/ \E isEnabled \in BOOLEAN : ApplyThemeCommand(1, isEnabled)
    \/ SecondOpen(1)
    \/ SecondWrite(1)
    \/ SecondRename(1)
    \/ SecondFails(1)
    \/ \E rec \in SessionRecords : ForeignWrite(rec, MaxForeignWrites)
    \/ Tick

SpecCommand == InitShutdown /\ [][NextCommand]_vars

(***************************************************************************)
(* SpecTitle: the TitleManager of process 1, driven by its three public    *)
(* methods, and a user who edits the window.title setting.                 *)
(***************************************************************************)
TitleCtx == [m |-> titleManager, doc |-> windowTitle]

RootName == IF HasWorkspace(1) THEN workspaceId[1] ELSE ""

StoreTitleCtx(t) ==
    /\ titleManager' = t.m
    /\ windowTitle' = t.doc

\* TitleManager.setActive(indicator)
TitleSetActive ==
    /\ StoreTitleCtx(updateTitleInConfig(TitleCtx, buildTitle(Indicator, RootName),
                                         HasWorkspace(1)))
    /\ UNCHANGED <<config, workspaceId, preApply, procVars, themeVars, fileVars, raceVars,
                   userTitle, clock, histVars>>

\* TitleManager.setInactive()
TitleSetInactive ==
    /\ StoreTitleCtx(updateTitleInConfig(TitleCtx, buildTitle("", RootName),
                                         HasWorkspace(1)))
    /\ UNCHANGED <<config, workspaceId, preApply, procVars, themeVars, fileVars, raceVars,
                   userTitle, clock, histVars>>

\* TitleManager.reset() (also TitleManager.dispose())
TitleReset ==
    /\ StoreTitleCtx(restoreOriginalTitle(TitleCtx, HasWorkspace(1)))
    /\ userTitle' = Undefined
    /\ UNCHANGED <<config, workspaceId, preApply, procVars, themeVars, fileVars, raceVars,
                   clock, histVars>>

\* the user writes a title into the settings at one target; the history
\* variable keeps it when it replaces the marker as the title in effect
UserSetsTitle(target) ==
    /\ edits < MaxEdits
    /\ edits' = edits + 1
    /\ target = "Workspace" => HasWorkspace(1)
    /\ windowTitle' = UpdateTitle(windowTitle, UserTitle, target)
    /\ userTitle' = IF /\ titleManager.originalTitleCaptured
                       /\ EffectiveTitle(windowTitle) = titleManager.lastSetTitle
                       /\ EffectiveTitle(windowTitle') = UserTitle
                      THEN UserTitle ELSE userTitle
    /\ UNCHANGED <<config, workspaceId, preApply, procVars, themeVars, fileVars, raceVars,
                   titleManager, clock, lastCall, handled, maxSeen>>

NextTitle ==
    \/ TitleSetActive
    \/ TitleSetInactive
    \/ TitleReset
    \/ \E target \in {"Workspace", "Global"} : UserSetsTitle(target)

InitTitle ==
    /\ InitCore
    /\ config = DefaultConfig
    /\ \E w \in {"workspace-1", NoWorkspace} :
           workspaceId = [p \in Procs |-> w]
    /\ workspaceDoc = [w \in Workspaces |-> EmptyDoc]
    /\ globalDoc = EmptyDoc
    /\ titleManager = NewTitleManager
    /\ \E ws \in {Undefined, DefaultTitle}, g \in {Undefined, DefaultTitle} :
           /\ ws # Undefined => HasWorkspace(1)
           /\ windowTitle = [ws |-> ws, g |-> g]

SpecTitle == InitTitle /\ [][NextTitle]_vars

(***************************************************************************)
(* SpecReschedule: process 1 alone, its activation, and a user who changes *)
(* the focusmark.activeApplyDelay setting.  Timers fire and file writes    *)
(* complete; no write fails and nothing deactivates the window.            *)
(***************************************************************************)
Delays == {0, 100, 200}

\* handleConfigurationChange(['activeApplyDelay']): with the window active
\* and the timer pending, scheduleActiveAppearance calls
\* applyActiveAppearanceWithDelay without awaiting it: the pending timer is
\* cleared, so the promise activateWindowAndNotify awaits is never
\* resolved; a new timer is armed, or the appearance applied at once
DelayChanged(p, delay) ==
    /\ edits < MaxEdits
    /\ edits' = edits + 1
    /\ delay # config.activeApplyDelay
    /\ config' = [config EXCEPT !.activeApplyDelay = delay]
    /\ IF isWindowActive[p] /\ activeApplyTimer[p]
         THEN /\ lastCall' = "rescheduled"
              /\ IF delay > 0
                   THEN /\ pcActivate' = [pcActivate EXCEPT ![p] = "rescheduled"]
                        /\ UNCHANGED <<activeApplyTimer, title, statusBarActive,
                                       themeVars>>
                   ELSE /\ activeApplyTimer' = [activeApplyTimer EXCEPT ![p] = FALSE]
                        /\ pcActivate' = [pcActivate EXCEPT ![p] = "idle"]
                        /\ StoreCtx(p, ActiveAppearance(p))
                        /\ title' = [title EXCEPT ![p] = applyTitleIndicator(TRUE)]
                        /\ statusBarActive' = [statusBarActive EXCEPT ![p] = TRUE]
         ELSE UNCHANGED <<lastCall, activeApplyTimer, pcActivate, title,
                          statusBarActive, themeVars>>
    /\ UNCHANGED <<workspaceId, preApply, titleVars, raceVars, focused, isWindowActive,
                   lastActivatedAt, deactivateTimer, pcCoord, fileVars, clock,
                   handled, maxSeen>>

\* the timer armed by the reschedule fires: applyActiveAppearance, and
\* resolve() of a promise nobody awaits
RescheduledTimerFires(p) ==
    /\ pcActivate[p] = "rescheduled"
    /\ activeApplyTimer[p]
    /\ activeApplyTimer' = [activeApplyTimer EXCEPT ![p] = FALSE]
    /\ pcActivate' = [pcActivate EXCEPT ![p] = "idle"]
    /\ StoreCtx(p, ActiveAppearance(p))
    /\ title' = [title EXCEPT ![p] = applyTitleIndicator(TRUE)]
    /\ statusBarActive' = [statusBarActive EXCEPT ![p] = TRUE]
    /\ UNCHANGED <<config, workspaceId, preApply, titleVars, raceVars, focused, isWindowActive,
                   lastActivatedAt, deactivateTimer, pcCoord, fileVars, clock,
                   histVars>>

NextReschedule ==
    \/ FocusGained(1)
    \/ FocusLost(1)
    \/ SelectionChange(1)
    \/ EditorChange(1)
    \/ ApplyTimerFires(1)
    \/ NotifyWriteJson(1)
    \/ NotifyRename(1)
    \/ \E delay \in Delays : DelayChanged(1, delay)
    \/ RescheduledTimerFires(1)
    \/ Tick

SpecReschedule ==
    /\ InitShutdown
    /\ [][NextReschedule]_vars
    /\ WF_vars(ApplyTimerFires(1))
    /\ WF_vars(RescheduledTimerFires(1))
    /\ WF_vars(NotifyWriteJson(1))
    /\ WF_vars(NotifyRename(1))

(***************************************************************************)
(* SpecInFlight: the activation of process 1 with applyTheme divided at    *)
(* its awaits, so that a handleCoordinationChange of the same process can  *)
(* run while the apply is in flight.  The window stays unfocused (the      *)
(* interaction is an editor or selection change), there is no apply delay, *)
(* and a writer outside leaves any record.                                 *)
(***************************************************************************)
\* handleUserInteraction -> activateWindowAndNotify -> applyActiveAppearance
\* -> themeManager.applyTheme, up to the completion of its captures; an
\* apply that is skipped returns at once and the activation goes on
ActivationStarts(p) ==
    /\ ~isWindowActive[p]
    /\ pcActivate[p] = "idle"
    /\ config.activeApplyDelay = 0
    /\ isWindowActive' = [isWindowActive EXCEPT ![p] = TRUE]
    /\ handled' = [handled EXCEPT ![p] = "none"]
    /\ IF applyTheme(Ctx(p), EffectiveColor(p), config.fullColorMode) = Ctx(p)
         THEN ApplyAndStartNotify(p)
         ELSE /\ StoreCtx(p, applyThemeCapture(Ctx(p)))
              /\ pcActivate' = [pcActivate EXCEPT ![p] = "applyTheme"]
              /\ UNCHANGED <<lastActivatedAt, title, statusBarActive>>
    /\ UNCHANGED <<config, workspaceId, preApply, titleVars, raceVars, focused, activeApplyTimer,
                   deactivateTimer, pcCoord, fileVars, clock, edits, lastCall, maxSeen>>

\* applyTheme: the updates of colorCustomizations complete
ApplyThemeUpdates(p) ==
    /\ pcActivate[p] = "applyTheme"
    /\ StoreCtx(p, applyThemeUpdate(Ctx(p), EffectiveColor(p), config.fullColorMode))
    /\ pcActivate' = [pcActivate EXCEPT ![p] = "applyTheme: updated"]
    /\ UNCHANGED <<config, workspaceId, preApply, titleVars, raceVars, focused, isWindowActive,
                   lastActivatedAt, activeApplyTimer, deactivateTimer, pcCoord, title,
                   statusBarActive, fileVars, clock, histVars>>

\* applyTheme returns: applyActiveAppearance sets the title and the status
\* bar, and activateWindowAndNotify goes on to notifyWindowActive
ApplyThemeReturns(p) ==
    /\ pcActivate[p] = "applyTheme: updated"
    /\ StoreCtx(p, applyThemeReturn(Ctx(p), EffectiveColor(p), config.fullColorMode))
    /\ title' = [title EXCEPT ![p] = applyTitleIndicator(TRUE)]
    /\ statusBarActive' = [statusBarActive EXCEPT ![p] = TRUE]
    /\ lastActivatedAt' = [lastActivatedAt EXCEPT ![p] = clock]
    /\ pcActivate' = [pcActivate EXCEPT ![p] = "writeJson"]
    /\ UNCHANGED <<config, workspaceId, preApply, titleVars, raceVars, focused, isWindowActive,
                   activeApplyTimer, deactivateTimer, pcCoord, fileVars, clock, histVars>>

NextInFlight ==
    \/ ActivationStarts(1)
    \/ ApplyThemeUpdates(1)
    \/ ApplyThemeReturns(1)
    \/ NotifyWriteJson(1)
    \/ NotifyRename(1)
    \/ NotifyFails(1)
    \/ CoordinationCheck(1)
    \/ CoordinationRead(1)
    \/ CoordinationReadFails(1)
    \/ CoordinationRemove(1)
    \/ \E rec \in ForeignRecords : ForeignWrite(rec, MaxRecords)
    \/ Tick

InitInFlight ==
    /\ InitRecords
    /\ config.activeApplyDelay = 0

SpecInFlight == InitInFlight /\ [][NextInFlight]_vars

(***************************************************************************)
(* SpecTwoWindows: two windows under global scope.  Window 1 gains the     *)
(* focus and keeps it; window 2 is never focused and activates through     *)
(* editor changes.  There is no apply delay; the file operations and the   *)
(* backup pollers of both keep running.                                    *)
(***************************************************************************)
NextTwoWindows ==
    \/ FocusGained(1)
    \/ EditorChange(2)
    \/ \E p \in Procs : NotifyWriteJson(p)
    \/ \E p \in Procs : NotifyRename(p)
    \/ \E p \in Procs : CoordinationCheck(p)
    \/ \E p \in Procs : CoordinationRead(p)
    \/ Tick

InitTwoWindows ==
    /\ Init
    /\ config.coordinationScope = "global"
    /\ config.activeApplyDelay = 0

SpecTwoWindows ==
    /\ InitTwoWindows
    /\ [][NextTwoWindows]_vars
    /\ \A p \in Procs : /\ WF_vars(NotifyWriteJson(p))
                         /\ WF_vars(NotifyRename(p))
                         /\ WF_vars(CoordinationCheck(p))
                         /\ WF_vars(CoordinationRead(p))

(***************************************************************************)
(* State functions the properties are written with.                       *)
(***************************************************************************)
\* the document of process p's local scope, as a state function
LocalDocOf(p) ==
    IF HasWorkspace(p) THEN workspaceDoc[workspaceId[p]] ELSE globalDoc

\* what a snapshot says a key was: its value, or absent
SnapshotValue(stored, key) ==
    IF stored[key] = Null THEN Undefined ELSE stored[key]

\* process p's activation state, palette state and title, and the documents,
\* are the same after the step as before it
LocalUnchanged(p) ==
    /\ isWindowActive'[p] = isWindowActive[p]
    /\ tm'[p] = tm[p]
    /\ workspaceState'[p] = workspaceState[p]
    /\ title'[p] = title[p]
    /\ statusBarActive'[p] = statusBarActive[p]
    /\ workspaceDoc' = workspaceDoc
    /\ globalDoc' = globalDoc
    /\ globalState' = globalState

\* the file holds the claim of a claimant other than p
RemoteClaim(p) ==
    /\ coordinationFile.kind = "claim"
    /\ coordinationFile.activeWindowId # 0
    /\ coordinationFile.activeWindowId # p

\* no apply-delay timer and no I/O is pending in any process
Quiescent == \A p \in Procs : Settled(p)

Owed(p) ==
    /\ RemoteClaim(p)
    /\ coordinationFile.timestamp > lastActivatedAt[p]
    /\ ~focused[p]
    /\ config.coordinationScope = "global"

\* C2: under global scope, when process 1 is unfocused and Active and the
\* file holds a different claimant's record newer than its lastActivatedAt,
\* the read of its next poll leaves it Inactive, and with the poller running
\* that read comes: the obligation does not stay unmet forever.
C2_PollDeactivates ==
    /\ [][ (CoordinationRead(1) /\ Owed(1) /\ (isWindowActive[1] \/ tm[1].applied))
             => ~isWindowActive'[1] ]_vars
    /\ ((Owed(1) /\ isWindowActive[1]) ~> ~(Owed(1) /\ isWindowActive[1]))

\* C2 witness: process 1 has deactivated on a newer record of another
\* workspace's window, under global scope.
C2_Witness ==
    /\ handled[1] = "deactivate"
    /\ Owed(1)
    /\ config.coordinationScope = "global"
    /\ coordinationFile.workspaceId = "workspace-2"
    /\ ~isWindowActive[1]
    /\ pcCoord[1] = "idle"

\* C3: a process that is focused when it handles a coordination change
\* changes neither its activation state, nor its palette, nor its title,
\* nor a document, whatever id and timestamp the record bears.
C3_FocusedIgnoresRecord ==
    [][ \A p \in Procs :
          (CoordinationRead(p) /\ focused[p]) => LocalUnchanged(p) ]_vars

\* C3 witness: focused and Active, process 1 has handled a newer record of
\* another claimant and stayed as it was.
C3_Witness ==
    /\ handled[1] = "focused"
    /\ focused[1] /\ isWindowActive[1] /\ tm[1].applied
    /\ RemoteClaim(1)
    /\ coordinationFile.timestamp > lastActivatedAt[1]

\* C4: a record whose timestamp is at or before the process's
\* lastActivatedAt causes no state transition and no document write.
C4_StaleRecordIgnored ==
    [][ \A p \in Procs :
          (CoordinationRead(p) /\ coordinationFile.timestamp <= lastActivatedAt[p])
            => LocalUnchanged(p) ]_vars

\* C4 witness: unfocused and Active, process 1 has handled another
\* claimant's record stamped exactly at its own lastActivatedAt.
C4_Witness ==
    /\ handled[1] = "stale"
    /\ ~focused[1] /\ isWindowActive[1] /\ tm[1].applied
    /\ RemoteClaim(1)
    /\ coordinationFile.timestamp = lastActivatedAt[1]

\* C5: a record bearing the process's own id causes no state transition,
\* whatever its timestamp and whatever the focus.
C5_OwnRecordIgnored ==
    [][ \A p \in Procs :
          (CoordinationRead(p) /\ coordinationFile.activeWindowId = p)
            => LocalUnchanged(p) ]_vars

\* C5 witness: unfocused and Active, process 1 has handled a record that
\* bears its own id and a timestamp after its lastActivatedAt.
C5_Witness ==
    /\ handled[1] = "own or invalid"
    /\ ~focused[1] /\ isWindowActive[1] /\ tm[1].applied
    /\ coordinationFile.kind = "claim"
    /\ coordinationFile.activeWindowId = 1
    /\ coordinationFile.timestamp > lastActivatedAt[1]

\* C6 as stated: once a process has observed a remote claim with timestamp
\* t, whether it acted on it or not, no remote claim with a smaller
\* timestamp that it observes later causes a state transition.
C6_NoSmallerAfterObserved ==
    [][ \A p \in Procs :
          (CoordinationRead(p) /\ RemoteClaim(p)
             /\ coordinationFile.timestamp < maxSeen[p])
            => LocalUnchanged(p) ]_vars

\* C6 amended: the bar is the process's own last announce, not the remote
\* claims it has observed: lastActivatedAt never decreases, a remote claim
\* stamped at or before it causes no state transition, and observing a
\* remote claim leaves lastActivatedAt as it is.
C6_NoSmallerAfterOwnAnnounce ==
    [][ \A p \in Procs :
          /\ lastActivatedAt'[p] >= lastActivatedAt[p]
          /\ CoordinationRead(p) => lastActivatedAt'[p] = lastActivatedAt[p]
          /\ (CoordinationRead(p) /\ RemoteClaim(p)
                /\ coordinationFile.timestamp <= lastActivatedAt[p])
               => LocalUnchanged(p) ]_vars

\* C6 witness: process 1 announced at 2 and then, unfocused and Active,
\* handled another claimant's record stamped 1 without a change.
C6_Witness ==
    /\ handled[1] = "stale"
    /\ ~focused[1] /\ isWindowActive[1]
    /\ RemoteClaim(1)
    /\ lastActivatedAt[1] = 2
    /\ coordinationFile.timestamp = 1

\* the keys of the minimal palette no longer hold the values of palette
PaletteGone(doc, palette) ==
    \A key \in MINIMAL_ELEMENTS : doc[key] # palette[key]

\* C7 as stated: an unfocused Active process that reads, under global
\* scope, a different claimant's newer record ends the step with isActive
\* false, the inactive title, the status indicator inactive and the palette
\* removed or restored.
C7_DeactivationRemovesPalette ==
    [][ \A p \in Procs :
          (CoordinationRead(p) /\ Owed(p) /\ isWindowActive[p] /\ tm[p].applied)
            => /\ ~isWindowActive'[p]
               /\ title'[p] = "inactive"
               /\ ~statusBarActive'[p]
               /\ ~tm'[p].applied
               /\ PaletteGone(LocalDocOf(p)', tm[p].palette) ]_vars

\* C7 amended: ... and the palette removed or restored, unless
\* keepInactiveWindowColors is on and the record bears the process's own
\* workspaceId, in which case the palette stays applied.
C7_DeactivationEffects ==
    [][ \A p \in Procs :
          (CoordinationRead(p) /\ Owed(p) /\ isWindowActive[p] /\ tm[p].applied)
            => /\ ~isWindowActive'[p]
               /\ title'[p] = "inactive"
               /\ ~statusBarActive'[p]
               /\ IF config.keepInactiveWindowColors
                       /\ coordinationFile.workspaceId = workspaceId[p]
                    THEN tm'[p].applied /\ LocalDocOf(p)' = LocalDocOf(p)
                    ELSE /\ ~tm'[p].applied
                         /\ PaletteGone(LocalDocOf(p)', tm[p].palette) ]_vars

\* C7 witness: process 1 has deactivated on a newer record of a window of
\* its own workspace with keepInactiveWindowColors off: inactive title,
\* indicator off, palette gone.
C7_Witness ==
    /\ handled[1] = "deactivate"
    /\ Owed(1)
    /\ ~config.keepInactiveWindowColors
    /\ coordinationFile.workspaceId = workspaceId[1]
    /\ ~isWindowActive[1] /\ title[1] = "inactive" /\ ~statusBarActive[1]
    /\ ~tm[1].applied
    /\ LocalDocOf(1)["titleBar.activeBackground"] = Null

\* C8: under scope 'workspace' a record whose workspaceId differs from the
\* process's causes no state change; under scope 'global' the workspaceId
\* never prevents the deactivation of an unfocused Active process by a
\* different claimant's newer record.
C8_ScopeFilter ==
    [][ \A p \in Procs :
          /\ (CoordinationRead(p) /\ config.coordinationScope = "workspace"
                /\ coordinationFile.workspaceId # workspaceId[p])
               => LocalUnchanged(p)
          /\ (CoordinationRead(p) /\ config.coordinationScope = "global"
                /\ RemoteClaim(p) /\ ~focused[p] /\ isWindowActive[p]
                /\ coordinationFile.timestamp > lastActivatedAt[p])
               => ~isWindowActive'[p] ]_vars

\* C8 witness: under scope 'workspace', unfocused and Active, process 1 has
\* handled a newer record of a window of another workspace and stayed
\* Active with its palette.
C8_Witness ==
    /\ handled[1] = "out of scope"
    /\ config.coordinationScope = "workspace"
    /\ RemoteClaim(1)
    /\ coordinationFile.workspaceId = "workspace-2"
    /\ coordinationFile.timestamp > lastActivatedAt[1]
    /\ ~focused[1] /\ isWindowActive[1] /\ tm[1].applied

\* what a restore leaves under an affected key
RestoreExpected(doc, palette, stored, key) ==
    IF doc[key] # palette[key] THEN doc[key] ELSE SnapshotValue(stored, key)

\* C9: when a remote claim deactivates a process whose palette is applied,
\* the palette is left in place exactly when keepInactiveWindowColors is on
\* and the record bears the process's workspaceId; otherwise it is removed:
\* restored from the snapshot when the flag is on and the workspaces differ,
\* forced to the defaults (every affected key null) when the flag is off.
C9_PalettePolicy ==
    [][ \A p \in Procs :
          (CoordinationRead(p) /\ Outcome(p, coordinationFile) = "deactivate"
             /\ tm[p].applied)
            => LET same == coordinationFile.workspaceId = workspaceId[p]
                   keep == config.keepInactiveWindowColors
               IN  /\ (keep /\ same) <=>
                         (tm'[p] = tm[p] /\ LocalDocOf(p)' = LocalDocOf(p))
                   /\ (keep /\ ~same) =>
                         /\ ~tm'[p].applied
                         /\ \A key \in AFFECTED_ELEMENTS :
                               LocalDocOf(p)'[key] =
                                  RestoreExpected(LocalDocOf(p), tm[p].palette,
                                                  workspaceState[p].stored, key)
                   /\ ~keep =>
                         /\ ~tm'[p].applied
                         /\ \A key \in AFFECTED_ELEMENTS :
                               LocalDocOf(p)'[key] = Null ]_vars

\* C9 witness: with keepInactiveWindowColors on, process 1 has deactivated
\* on the record of a window of another workspace: its palette was restored
\* away, the title-bar background holding the user's colour again and the
\* title-bar foreground being absent again.
C9_Witness ==
    /\ handled[1] = "deactivate"
    /\ config.keepInactiveWindowColors
    /\ RemoteClaim(1)
    /\ coordinationFile.workspaceId # workspaceId[1]
    /\ ~isWindowActive[1]
    /\ ~tm[1].applied
    /\ workspaceState[1].stored = NoSnapshot
    /\ LocalDocOf(1)["titleBar.activeBackground"] = UserValue
    /\ LocalDocOf(1)["titleBar.activeForeground"] = Undefined

(***************************************************************************)
(* Properties of the reconciliation engine (SpecTheme).                    *)
(***************************************************************************)
\* C11: an applyTheme that directly follows an applyTheme with the same
\* base colour and the same mode, no edit in between, makes no update of
\* colorCustomizations and leaves both documents as they are.
C11_SecondApplyWritesNothing ==
    [][ \A baseColor \in {Blue, Orange}, full \in BOOLEAN :
          (ThemeApply(1, baseColor, full)
             /\ lastCall \in {"applyTheme", "applyTheme: skipped"}
             /\ tm[1].color = baseColor /\ tm[1].minimal = ModeOf(~full))
            => /\ applyThemeWrites(Ctx(1), baseColor, full) = 0
               /\ UNCHANGED <<workspaceDoc, globalDoc>> ]_vars

\* C11 witness: the second of two identical applies has just returned; the
\* full palette is applied and a colour the user wrote under a key the
\* extension does not own is where it was.
C11_Witness ==
    /\ lastCall = "applyTheme: skipped"
    /\ tm[1].applied /\ tm[1].minimal = "full"
    /\ edits > 0
    /\ LocalDocOf(1)["titleBar.activeBackground"] = tm[1].palette["titleBar.activeBackground"]
    /\ LocalDocOf(1)[OtherKey] = UserValue

\* C12: in each scope a stored snapshot keeps its contents through every
\* apply, remove, force-default, startup reconciliation, reset and edit: a
\* step either leaves it as it is or clears it, so a capture happens only
\* when the scope has no snapshot.
C12_SnapshotNeverOverwritten ==
    [][ /\ workspaceState[1].stored # NoSnapshot
            => workspaceState'[1].stored \in {workspaceState[1].stored, NoSnapshot}
        /\ globalState # NoSnapshot
            => globalState' \in {globalState, NoSnapshot} ]_vars

\* C12 witness: a force-default has run on a document the extension had
\* painted; the local snapshot still holds the user's colour captured
\* before the first apply, the global one is stored too.
C12_Witness ==
    /\ lastCall = "applyDefaultColors"
    /\ workspaceState[1].stored # NoSnapshot
    /\ workspaceState[1].stored["titleBar.activeBackground"] = UserValue
    /\ globalState # NoSnapshot
    /\ LocalDocOf(1)["titleBar.activeBackground"] = Null

\* a step that ran restoreOriginalCustomizations: a removeTheme without
\* force that did not return early, directly or from the startup path
RestoreStep ==
    /\ \/ ThemeRemove(1, FALSE)
       \/ ThemeStartup(1, FALSE, FALSE)
    /\ lastCall' \in {"restoreOriginalCustomizations",
                      "startup: restoreOriginalCustomizations"}

\* C13: a restore leaves no local snapshot and the applied flag false, and
\* an apply that finds no local snapshot stores the values the local
\* document holds at that moment and raises the flag.
C13_RestoreClearsThenFreshCapture ==
    [][ /\ RestoreStep
            => /\ workspaceState'[1].stored = NoSnapshot
               /\ ~workspaceState'[1].flag
        /\ \A baseColor \in {Blue, Orange}, full \in BOOLEAN :
              (ThemeApply(1, baseColor, full) /\ workspaceState[1].stored = NoSnapshot)
                => /\ workspaceState'[1].stored = Snapshot(LocalDocOf(1))
                   /\ workspaceState'[1].flag ]_vars

\* C13 witness: a restore has just run on a document that carried the
\* palette and one external edit; the edit is still there, the palette is
\* gone, and neither snapshot nor flag is left.
C13_Witness ==
    /\ lastCall = "restoreOriginalCustomizations"
    /\ edits > 0
    /\ workspaceState[1].stored = NoSnapshot
    /\ ~workspaceState[1].flag
    /\ LocalDocOf(1)["statusBar.background"] = UserValue
    /\ LocalDocOf(1)["titleBar.activeBackground"] = Undefined

\* C10: a restore (removeTheme without force) that runs with a palette
\* applied leaves every affected key whose current value differs from the
\* fingerprint as it is, and sets every affected key that still equals the
\* fingerprint back to its snapshot value, removing it when the snapshot
\* recorded it as absent.
C10_RestoreKeepsExternalEdits ==
    [][ (ThemeRemove(1, FALSE) /\ tm[1].applied /\ tm[1].palette # NoPalette)
          => \A key \in AFFECTED_ELEMENTS :
                /\ LocalDocOf(1)[key] # tm[1].palette[key]
                     => LocalDocOf(1)'[key] = LocalDocOf(1)[key]
                /\ LocalDocOf(1)[key] = tm[1].palette[key]
                     => LocalDocOf(1)'[key] =
                            SnapshotValue(workspaceState[1].stored, key) ]_vars

\* C10 witness: a restore has just run; the title-bar background holds the
\* explicit null the external actor wrote over the palette (a snapshot null
\* is restored as "absent", so this null is an edit that was kept), the
\* title-bar foreground, which nobody edits, went from its palette value
\* back to absent, and the status-bar background holds the colour the
\* external actor wrote while the palette was applied.
C10_Witness ==
    /\ lastCall = "restoreOriginalCustomizations"
    /\ ~tm[1].applied
    /\ workspaceState[1].stored = NoSnapshot
    /\ LocalDocOf(1)["titleBar.activeBackground"] = Null
    /\ LocalDocOf(1)["titleBar.activeForeground"] = Undefined
    /\ LocalDocOf(1)["statusBar.background"] = UserValue

\* C17: a 'Reset all' in a process that has its palette applied, with a
\* global snapshot stored, puts every affected key of the global document
\* that still holds the fingerprint value back to its global-snapshot
\* value (removing it when the snapshot recorded it absent) and clears the
\* global snapshot.
C17_ResetRestoresGlobal ==
    [][ ( /\ ThemeReset(1)
          /\ tm[1].applied
          /\ tm[1].palette # NoPalette
          /\ globalState # NoSnapshot )
          => /\ \A key \in AFFECTED_ELEMENTS :
                   globalDoc[key] = tm[1].palette[key]
                     => globalDoc'[key] = SnapshotValue(globalState, key)
             /\ globalState' = NoSnapshot ]_vars

\* ---- Properties of startup (SpecStartup) ----

\* the case of C14: process 1 is about to initialise with the applied flag
\* left set, no focus, colours enabled and keepInactiveWindowColors off
StaleUnfocusedStart ==
    /\ Initialize(1)
    /\ workspaceState[1].flag
    /\ ~focused[1]
    /\ config.enableColors
    /\ ~config.keepInactiveWindowColors

\* C14 as stated: after that initialisation the local document has no
\* entry for any affected key, the window is inactive and the flag is false.
C14_StartupLeavesNoEntries ==
    [][ StaleUnfocusedStart
          => /\ \A key \in AFFECTED_ELEMENTS : LocalDocOf(1)'[key] = Undefined
             /\ ~isWindowActive'[1]
             /\ ~workspaceState'[1].flag ]_vars

\* C14, amended: after that initialisation, reached without any
\* interaction, every affected key of the local document holds an explicit
\* null (no colour, and an entry that masks the value of the global
\* document), the window is inactive and the flag is false.
C14_StartupForcesDefaults ==
    [][ StaleUnfocusedStart
          => /\ \A key \in AFFECTED_ELEMENTS : LocalDocOf(1)'[key] = Null
             /\ ~isWindowActive'[1]
             /\ ~workspaceState'[1].flag ]_vars

\* C14 witness: the window was killed while it showed its palette and has
\* initialised again without focus; the palette is replaced by nulls, the
\* snapshot with the user's colour is still stored.
C14_Witness ==
    /\ lastCall = "initialize: not focused"
    /\ config.enableColors /\ ~config.keepInactiveWindowColors
    /\ ~focused[1] /\ ~isWindowActive[1] /\ pcActivate[1] = "idle"
    /\ ~workspaceState[1].flag
    /\ workspaceState[1].stored # NoSnapshot
    /\ workspaceState[1].stored["titleBar.activeBackground"] = UserValue
    /\ \A key \in AFFECTED_ELEMENTS : LocalDocOf(1)[key] = Null

\* C15: an initialisation that finds the applied flag set in a window
\* that is not focused, with keepInactiveWindowColors on, restores the
\* snapshot in full: every affected key of the local document goes back to
\* its snapshot value, the snapshot is cleared and the flag is lowered.
C15_StartupOtherwiseRestores ==
    [][ ( /\ Initialize(1)
          /\ workspaceState[1].flag
          /\ ~focused[1]
          /\ config.keepInactiveWindowColors )
          => /\ \A key \in AFFECTED_ELEMENTS :
                   LocalDocOf(1)'[key] = SnapshotValue(workspaceState[1].stored, key)
             /\ workspaceState'[1].stored = NoSnapshot
             /\ ~workspaceState'[1].flag ]_vars

\* the announce that initialisation started comes to its end: the rename
\* completes, or one of the two file operations throws
InitAnnounceEnds ==
    /\ lastCall = "initialize: focused"
    /\ pcActivate[1] \in {"writeJson", "rename"}
    /\ pcActivate'[1] = "idle"

\* an initialisation of a window that is not focused leaves it inactive,
\* starts no announce and touches neither the file nor the temp file
UnfocusedStartStaysInactive ==
    (Initialize(1) /\ ~focused[1])
      => /\ ~isWindowActive'[1]
         /\ pcActivate'[1] = "idle"
         /\ UNCHANGED <<coordinationFile, tempFile>>

\* C16: in the one step of initialisation, with no interaction and whatever
\* the apply delay, a focused window becomes active, applies its palette
\* (enableColors being on; with it off there is no palette to apply) and
\* starts the announce; when the rename of that announce completes the
\* file holds the claim of this window stamped with its lastActivatedAt.
\* A window that is not focused ends initialisation inactive and writes no
\* record.
C16_FastStart ==
    [][ /\ (Initialize(1) /\ focused[1])
            => /\ isWindowActive'[1]
               /\ tm'[1].applied = config.enableColors
               /\ config.enableColors
                    => \A key \in MINIMAL_ELEMENTS :
                         LocalDocOf(1)'[key] = tm'[1].palette[key]
               /\ ~activeApplyTimer'[1]
               /\ lastActivatedAt'[1] = clock
               /\ pcActivate'[1] = "writeJson"
        /\ (InitAnnounceEnds /\ NotifyRename(1))
            => coordinationFile' = Claim(1, workspaceId[1], lastActivatedAt[1])
        /\ UnfocusedStartStaysInactive ]_vars

\* C16 witness: with an apply delay of 100 ms and the flag left set by a
\* killed session, the window has initialised focused and its announce is
\* complete: active, palette applied, own record in the file.
C16_Witness ==
    /\ lastCall = "initialize: focused"
    /\ config.activeApplyDelay = 100
    /\ pcActivate[1] = "idle"
    /\ isWindowActive[1] /\ tm[1].applied /\ workspaceState[1].flag
    /\ coordinationFile = Claim(1, workspaceId[1], lastActivatedAt[1])
    /\ lastActivatedAt[1] = MaxClock

\* ---- Properties of the derived palette (SpecTheme) ----
\* the keys under which a palette or a document holds a value
KeysHeld(f) == {key \in AFFECTED_ELEMENTS : f[key] # Undefined}

TitleBarKeys ==
    { "titleBar.activeBackground", "titleBar.activeForeground",
      "titleBar.inactiveBackground", "titleBar.inactiveForeground" }

\* C25: the palette derived in minimal mode has exactly the 4 title-bar
\* keys and no status-bar or side-bar key, the one derived in full mode
\* exactly the 15 defined keys with the focus-ring key among them, whatever
\* the base colour; and an applyTheme that writes leaves exactly the keys
\* of its mode in the fingerprint and, of the affected keys, in the
\* document of the local scope.
C25_PaletteKeysByMode ==
    [][ lastCall' = "applyTheme"
          => LET expected == IF tm'[1].minimal = ModeOf(TRUE)
                               THEN TitleBarKeys ELSE AFFECTED_ELEMENTS
             IN  /\ \A base \in {Blue, Orange} :
                       /\ DOMAIN generateColorPalette(base, TRUE) = TitleBarKeys
                       /\ DOMAIN generateColorPalette(base, FALSE) = AFFECTED_ELEMENTS
                 /\ Cardinality(TitleBarKeys) = 4
                 /\ Cardinality(AFFECTED_ELEMENTS) = 15
                 /\ "focusBorder" \in AFFECTED_ELEMENTS
                 /\ {"statusBar.background", "statusBar.foreground",
                     "statusBar.border", "sideBar.border"} \cap TitleBarKeys = {}
                 /\ KeysHeld(tm'[1].palette) = expected
                 /\ KeysHeld(LocalDocOf(1)') = expected ]_vars

\* C25 witness: applyTheme has just written the minimal palette of the
\* orange base colour over a document in which the user had set a
\* status-bar key
C25_Witness ==
    /\ lastCall = "applyTheme"
    /\ tm[1].applied
    /\ tm[1].minimal = ModeOf(TRUE)
    /\ tm[1].color = Orange
    /\ edits > 0
    /\ KeysHeld(LocalDocOf(1)) = TitleBarKeys
    /\ workspaceState[1].stored # NoSnapshot
    /\ \E key \in AFFECTED_ELEMENTS \ TitleBarKeys :
           workspaceState[1].stored[key] = UserValue

\* C32: after an applyTheme that writes, every key of the derived palette
\* holds its palette value in the document of the local scope; of the
\* other keys, the one the extension never touches has the value it had
\* before the call, and so has every key that held a colour of the user.
C32_ApplyKeepsOtherKeys ==
    [][ lastCall' = "applyTheme"
          => LET palette == generateColorPalette(tm'[1].color,
                                                 tm'[1].minimal = ModeOf(TRUE))
             IN  \A key \in DocKeys :
                    IF key \in DOMAIN palette
                      THEN LocalDocOf(1)'[key] = palette[key]
                      ELSE (key = OtherKey \/ LocalDocOf(1)[key] = UserValue)
                             => LocalDocOf(1)'[key] = LocalDocOf(1)[key] ]_vars

\* C33: in every step of the driver that removes the palette of an applied
\* theme (removeTheme with or without forced defaults, resetAllColors,
\* the startup clean-up) and that knows what it last wrote, an affected key
\* whose value in the document of the local scope differs from that keeps
\* its value.
C33_RemovalKeepsLaterEdits ==
    [][ (tm[1].applied /\ tm[1].palette # NoPalette /\ ~tm'[1].applied)
          => \A key \in AFFECTED_ELEMENTS :
                LocalDocOf(1)[key] # tm[1].palette[key]
                  => LocalDocOf(1)'[key] = LocalDocOf(1)[key] ]_vars

\* C34: an applyTheme that opens an apply session (nothing applied, no
\* snapshot stored) leaves the key outside the affected set as it is, and
\* a restore (removeTheme without forced defaults) that is the very next
\* step, with no edit in between, leaves every affected key of the local
\* document as the apply found it (the same value, or absent if it was
\* absent) and the key outside the affected set unchanged.
C34_ApplyRestoreRoundTrip ==
    [][ /\ lastCall' = "applyTheme"
            => LocalDocOf(1)'[OtherKey] = LocalDocOf(1)[OtherKey]
        /\ (preApply.fresh /\ lastCall' = "restoreOriginalCustomizations")
            => \A key \in DocKeys : LocalDocOf(1)'[key] = preApply.doc[key] ]_vars

\* ---- Properties of the announce and of the interaction handlers ----

\* C21: when the writeJson or the rename of an announce throws, the
\* activation task ends as if it had succeeded (nothing is thrown on), the
\* process keeps its activation state, lastActivatedAt, palette, title and
\* documents, and the coordination file keeps the content it had.
C21_FailedAnnounceChangesNothing ==
    [][ \A p \in Procs :
          NotifyFails(p)
            => /\ pcActivate'[p] = "idle"
               /\ LocalUnchanged(p)
               /\ lastActivatedAt'[p] = lastActivatedAt[p]
               /\ coordinationFile' = coordinationFile ]_vars

\* C21 witness: process 1 is Active with its palette applied and idle, the
\* rename of its announce has failed (the temp file is still there), and
\* the coordination file, which nobody else has written, is still absent.
C21_Witness ==
    /\ isWindowActive[1] /\ tm[1].applied
    /\ pcActivate[1] = "idle"
    /\ tempFile[1] = Claim(1, workspaceId[1], lastActivatedAt[1])
    /\ coordinationFile = NoFile
    /\ edits = 0

\* an interaction handler of process p runs
Interaction(p) ==
    FocusGained(p) \/ SelectionChange(p) \/ EditorChange(p)

\* C22: an interaction event that arrives while isWindowActive is true
\* starts no announce and no timer, writes neither the coordination file
\* nor the temp file, leaves lastActivatedAt, the palette and the documents
\* as they are; an editor change sets the active title, the other two
\* events leave the title too.
C22_InteractionWhileActive ==
    [][ \A p \in Procs :
          (isWindowActive[p] /\ Interaction(p))
            => /\ UNCHANGED <<coordinationFile, tempFile>>
               /\ pcActivate'[p] = pcActivate[p]
               /\ activeApplyTimer'[p] = activeApplyTimer[p]
               /\ lastActivatedAt'[p] = lastActivatedAt[p]
               /\ isWindowActive'[p]
               /\ tm'[p] = tm[p] /\ workspaceState'[p] = workspaceState[p]
               /\ UNCHANGED <<workspaceDoc, globalDoc, globalState>>
               /\ title'[p] = IF EditorChange(p) /\ ~FocusGained(p)
                                THEN applyTitleIndicator(TRUE) ELSE title[p] ]_vars

\* C22 witness: process 1 is Active and waits for its apply delay; an
\* editor change has already set the active title, and nothing else has
\* moved: no palette, no announce, no record.
C22_Witness ==
    /\ isWindowActive[1]
    /\ pcActivate[1] = "timer" /\ activeApplyTimer[1]
    /\ title[1] = applyTitleIndicator(TRUE)
    /\ ~tm[1].applied
    /\ lastActivatedAt[1] = 0
    /\ coordinationFile = NoFile /\ tempFile[1] = NoFile

\* C23: a focus-lost event changes none of isWindowActive,
\* lastActivatedAt, the palette, the title, the documents and the files;
\* and process 1 goes from Active to not Active only in the read of a
\* record on which it decides to deactivate.
C23_FocusLostChangesNothing ==
    /\ [][ \A p \in Procs :
            FocusLost(p)
              => /\ LocalUnchanged(p)
                 /\ lastActivatedAt'[p] = lastActivatedAt[p]
                 /\ pcActivate'[p] = pcActivate[p]
                 /\ UNCHANGED <<coordinationFile, tempFile>> ]_vars
    /\ [][ (isWindowActive[1] /\ ~isWindowActive'[1])
            => /\ CoordinationRead(1)
               /\ Outcome(1, coordinationFile) = "deactivate" ]_vars

\* C23 witness: process 1 handled the record of another claimant while it
\* was focused, has lost focus since, and is still Active with its palette
\* and the active title.
C23_Witness ==
    /\ handled[1] = "focused"
    /\ RemoteClaim(1)
    /\ coordinationFile.timestamp > lastActivatedAt[1]
    /\ ~focused[1]
    /\ isWindowActive[1] /\ tm[1].applied
    /\ title[1] = applyTitleIndicator(TRUE)
    /\ Settled(1)

Activates(p) == ~isWindowActive[p] /\ isWindowActive'[p]

\* the step in which process p applies its appearance and starts its announce
AppliesAndAnnounces(p) == pcActivate'[p] = "writeJson" /\ pcActivate[p] # "writeJson"

C31_DeactivationCancelsTimer ==
    [][ \A p \in Procs :
          /\ (activeApplyTimer[p] /\ isWindowActive[p] /\ ~isWindowActive'[p])
                => /\ ~activeApplyTimer'[p]
                   /\ pcActivate'[p] = "idle"
                   /\ lastActivatedAt'[p] = lastActivatedAt[p]
                   /\ UNCHANGED <<coordinationFile, tempFile>>
          /\ ~isWindowActive[p] => ~activeApplyTimer[p] /\ pcActivate[p] # "timer"
          /\ AppliesAndAnnounces(p)
                => /\ isWindowActive'[p]
                   /\ Activates(p) \/ (isWindowActive[p] /\ activeApplyTimer[p]) ]_vars

\* C31 witness: process 1 has been deactivated by the record of another
\* claimant before it ever applied or announced: its timer was pending
C31_Witness ==
    /\ config.activeApplyDelay > 0
    /\ ~isWindowActive[1]
    /\ title[1] = applyTitleIndicator(FALSE)
    /\ lastActivatedAt[1] = 0
    /\ ~tm[1].applied
    /\ Settled(1)
    /\ RemoteClaim(1)

\* ---- Properties of the handling of an unparsable file (SpecHeal) ----

ReadCompletes(p) ==
    pcCoord[p] = "readFile" /\ pcCoord'[p] # "readFile"

\* the records an announce of some process writes
AnnounceRecords ==
    { Claim(q, workspaceId[q], ts) : q \in Procs, ts \in 1 .. MaxClock }

\* C18: whatever the interleaving of announces and reads, a read of the
\* coordination file returns no file or one whole record written by one
\* announce, never a file that is not yet written in full.
C18_ReaderSeesWholeRecord ==
    [][ \A p \in Procs :
          ReadCompletes(p)
            => coordinationFile = NoFile \/ coordinationFile \in AnnounceRecords ]_vars

\* ---- Properties of shutdown (SpecShutdown) ----

\* C19: the fs.remove of process 1's shutdown cleanup never takes away a
\* coordination file that holds, at that moment, the claim of another
\* process, whatever was announced since the cleanup read the file.
C19_CleanupSparesOthersClaim ==
    [][ CleanupRemove(1)
          => ~( /\ coordinationFile.kind = "claim"
                /\ coordinationFile.activeWindowId # 1 ) ]_vars

(***************************************************************************)
(* Properties of the disposal (SpecDispose).                               *)
(***************************************************************************)
\* C24: once dispose has completed and no write begun earlier is still in
\* flight, no step changes process 1's activation state, palette state,
\* title or claim time, or starts a write of its claim: no timer tick and
\* no watch or poll event acts in the process any more.
C24_NothingAfterDispose ==
    [][ (pcActivate[1] = "down" /\ pcSecond[1] = "idle")
          => /\ LocalUnchanged(1)
             /\ lastActivatedAt'[1] = lastActivatedAt[1]
             /\ pcSecond'[1] = "idle"
             /\ tempFile' = tempFile ]_vars

(***************************************************************************)
(* Properties of the command "apply theme" (SpecCommand).                  *)
(***************************************************************************)
\* C26: run in an enabled extension and a focused window, the command
\* leaves process 1 Active with its palette in the local document and the
\* active title, arms no apply-delay timer, and starts the write of a
\* record that carries the id of process 1; run in a disabled extension or
\* an unfocused window it changes nothing of the window, the documents and
\* the files.
C26_CommandAppliesAndAnnounces ==
    [][ \A isEnabled \in BOOLEAN :
          ApplyThemeCommand(1, isEnabled)
            => IF isEnabled /\ focused[1]
                 THEN /\ isWindowActive'[1]
                      /\ tm'[1].applied
                      /\ \A key \in MINIMAL_ELEMENTS :
                            LocalDocOf(1)'[key] = tm'[1].palette[key]
                      /\ title'[1] = applyTitleIndicator(TRUE)
                      /\ activeApplyTimer' = activeApplyTimer
                      /\ lastActivatedAt'[1] = clock
                      /\ \/ pcActivate'[1] = "writeJson" /\ pcActivate[1] = "idle"
                         \/ pcSecond'[1] = "writeJson" /\ pcSecond[1] = "idle"
                 ELSE /\ LocalUnchanged(1)
                      /\ UNCHANGED <<lastActivatedAt, activeApplyTimer, pcActivate,
                                     pcSecond, coordinationFile, tempFile>> ]_vars
    /\ [][ (tempFile'[1] # tempFile[1] /\ tempFile'[1].kind = "claim")
            => /\ tempFile'[1].activeWindowId = 1
               /\ tempFile'[1].timestamp = lastActivatedAt[1] ]_vars

\* C26 witness: the command was run with an apply delay configured and its
\* announce has completed: process 1 is Active with its palette, and its
\* own record is in the file
C26_Witness ==
    /\ lastCall = "applyThemeFromCommand"
    /\ config.activeApplyDelay > 0
    /\ isWindowActive[1] /\ tm[1].applied /\ focused[1]
    /\ Settled(1) /\ pcSecond[1] = "idle"
    /\ coordinationFile = Claim(1, workspaceId[1], lastActivatedAt[1])
    /\ lastActivatedAt[1] = MaxClock

(***************************************************************************)
(* Properties of the title (SpecTitle).                                    *)
(***************************************************************************)
\* C27: when the user has replaced the applied marker by a title of their
\* own, the next reset leaves the user's title as the title in effect.
C27_ResetRestoresUserTitle ==
    [][ (TitleReset /\ userTitle # Undefined)
          => EffectiveTitle(windowTitle') = userTitle ]_vars

(***************************************************************************)
(* Properties of the rescheduled apply delay (SpecReschedule).             *)
(***************************************************************************)
\* the local document holds the palette of process 1
PaletteShown ==
    /\ tm[1].applied
    /\ \A key \in MINIMAL_ELEMENTS : LocalDocOf(1)[key] = tm[1].palette[key]

\* C30: once the apply-delay timer of process 1 has been rescheduled while
\* pending, the palette is eventually applied and the record of process 1
\* is eventually in the coordination file.
C30_RescheduledStillAnnounces ==
    (lastCall = "rescheduled")
        ~> (PaletteShown /\ coordinationFile.kind = "claim"
                         /\ coordinationFile.activeWindowId = 1)

\* the half of it that the code keeps: the palette is eventually applied
RescheduledStillApplies == (lastCall = "rescheduled") ~> PaletteShown


\* C35: the deactivation timer is unset in every state, before and after
\* every step, and a process that decides to deactivate on a remote claim
\* is Inactive at the end of the very step that read the claim.
C35_NoPendingDeactivation ==
    [][ \A p \in Procs :
          /\ ~deactivateTimer[p] /\ ~deactivateTimer'[p]
          /\ (CoordinationRead(p) /\ Outcome(p, coordinationFile) = "deactivate")
                => ~isWindowActive'[p] ]_vars

\* C35 witness: process 1 was Active with its palette, read a remote claim
\* and deactivated on it; nothing of it is in flight and no deactivation
\* timer is left behind.
C35_Witness ==
    /\ handled[1] = "deactivate"
    /\ ~isWindowActive[1]
    /\ ~deactivateTimer[1]
    /\ lastActivatedAt[1] > 0
    /\ maxSeen[1] > lastActivatedAt[1]
    /\ Settled(1)


\* C36: process p's announce (the start of notifyWindowActive once the
\* apply has returned, the write of the temp file, the rename onto the
\* coordination file) happens only in a state where isWindowActive[p] is
\* true; an activation that was deactivated while its apply was in flight
\* does not announce.
C36_AnnounceOnlyWhileActive ==
    [][ \A p \in Procs :
          (ApplyThemeReturns(p) \/ NotifyWriteJson(p) \/ NotifyRename(p))
            => isWindowActive[p] ]_vars

\* the palette process p applies with the settings as they are
OwnPalette(p) == generateColorPalette(EffectiveColor(p), ~config.fullColorMode)

\* C37: process 1, the only process that writes the document, has none of
\* its palette values in the document of its local scope whenever it is
\* Inactive with keepInactiveWindowColors off and has nothing in flight.
C37_InactiveShowsNoPalette ==
    (~isWindowActive[1] /\ ~config.keepInactiveWindowColors /\ Settled(1))
      => \A key \in DOMAIN OwnPalette(1) :
            LocalDocOf(1)[key] # OwnPalette(1)[key]


\* the number of window.title updates one deactivateWindow issues: none
\* when it returns at its first test, else the one of
\* titleManager.setInactive (updateTitleInConfig updates unconditionally)
deactivateWindowTitleWrites(p) ==
    IF ~isWindowActive[p] /\ ~tm[p].applied THEN 0 ELSE 1

\* the number of window.title updates handleCoordinationChange issues on
\* the record data
TitleWritesOnRecord(p, data) ==
    IF Outcome(p, data) = "deactivate" THEN deactivateWindowTitleWrites(p) ELSE 0

\* C38: a process that has deactivated on the record the file holds, and
\* reads the same record again, issues no update of the window title and
\* leaves the documents, the durable stores, the title and its theme
\* fields as they are, whether or not the palette was preserved.
C38_RereadWritesNothing ==
    [][ \A p \in Procs :
          (CoordinationRead(p) /\ handled[p] = "deactivate")
            => /\ TitleWritesOnRecord(p, coordinationFile) = 0
               /\ UNCHANGED <<title, themeVars>> ]_vars


\* C39: once window 1 is focused and Active with its announce completed,
\* and the unfocused window 2 is Active with an activation later than
\* window 1's last announce, window 2 eventually becomes Inactive (window 1
\* stays focused and Active throughout).
C39_OtherEventuallyInactive ==
    (/\ focused[1] /\ isWindowActive[1] /\ Settled(1)
     /\ ~focused[2] /\ isWindowActive[2]
     /\ lastActivatedAt[2] > lastActivatedAt[1])
       ~> ~isWindowActive[2]


\* C40: the fs.remove that follows a failed parse never removes a claim
\* record of another process: when it completes, the file does not hold a
\* valid record that another process renamed into place after the
\* reader's read.
C40_HealKeepsValidRecord ==
    [][ \A p \in Procs :
          CoordinationRemove(p)
            => ~(coordinationFile.kind = "claim"
                   /\ coordinationFile.activeWindowId # p) ]_vars

=============================================================================
